---- MODULE Spec2Model ----
(***************************************************************************)
(* Verification model of the optiroute-backend route-optimisation engine:  *)
(* the shortest-path solvers (server/algorithms/dijkstra.py, astar.py,     *)
(* bellman_ford.py), the capacity planner (knapsack.py), the schedulers    *)
(* (scheduler.py), the multi-stop solver (tsp_solver.py), the route store  *)
(* (server/database.py) and optimize_route of server/flask_app.py and of   *)
(* render_flask_app.py.                                                    *)
(***************************************************************************)
EXTENDS Integers, Sequences, FiniteSets, TLC

(***************************************************************************)
(* Bounds of the explored input space.                                     *)
(***************************************************************************)
NumNodes == 3
MaxEdges == 3

\* float('infinity') of the solvers: larger than every finite path length.
Infinity == 1000000

\* node identifiers; their order is the order of the identifier strings
Node == 1..NumNodes
\* edge weights (signed: Bellman-Ford accepts negative weights)
WeightSet == {-1, 0, 1}
\* x coordinates of the locations (all on the x axis)
CoordSet == {0, 1}
\* the path walk is followed this far
MaxWalk == 2 * NumNodes + 2

VARIABLES
    graph,   \* the adjacency dictionary: [nodes, keys, w], w maps <<u, v>> to a weight
    src,     \* requested source node
    tgt,     \* requested target node
    pc,      \* position of the call: "idle", "bf_walk", "done"
    walk,    \* get_path_bellman_ford's loop state while pc = "bf_walk"
    deliveries, \* the caller's delivery (item) records, a list of dictionaries
    args,    \* the other arguments of the call (capacity, constraints)
    locals,  \* local variables of the scheduler call in progress
    res,     \* result of the last completed call
    history, \* the results the caller still holds from its earlier calls
    db       \* db_manager: whether the database is in use, and its routes table

vars == <<graph, src, tgt, pc, walk, deliveries, args, locals, res, history, db>>

pathVars == <<graph, src, tgt, walk>>

planVars == <<deliveries, args, locals>>

envVars == <<history, db>>

\* DatabaseManager without a usable database: use_db is False
NoDatabase == [use_db |-> FALSE, routes |-> <<>>]

(***************************************************************************)
(* Graph helpers.  A graph is a Python dict of dicts: g.keys is the set of *)
(* keys, DOMAIN g.w the set of (key, neighbour) pairs.  Dictionaries are   *)
(* iterated in insertion order, modelled as ascending node order.          *)
(***************************************************************************)
Neighbors(g, u) == {v \in g.nodes : <<u, v>> \in DOMAIN g.w}

AllKeys(g) == g.keys = g.nodes

NonNegative(g) == \A e \in DOMAIN g.w : g.w[e] >= 0

\* lexicographic order of (number, node) tuples, as Python compares them
TupleLess(a, b) == a[1] < b[1] \/ (a[1] = b[1] /\ a[2] < b[2])

HeapMin(pq) == CHOOSE a \in pq : \A b \in pq : a = b \/ TupleLess(a, b)

NoResult == [op |-> "none"]

(***************************************************************************)
(* dijkstra.py                                                             *)
(***************************************************************************)
\* a predecessor recorded only the first time a node is reached
UpdatePreviousFirstOnly(previous, better, current_node) ==
    [v \in (DOMAIN previous) \cup better |->
        IF v \in DOMAIN previous THEN previous[v] ELSE current_node]

\* "previous[neighbor] = current_node" for every neighbour whose distance improved
UpdatePrevious(previous, better, current_node) ==
    [v \in (DOMAIN previous) \cup better |->
        IF v \in better THEN current_node ELSE previous[v]]

RECURSIVE DijkstraLoop(_, _, _, _, _, _, _)
DijkstraLoop(g, end, distances, previous, visited, pq, err) ==
    IF pq = {} \/ err
    THEN [distances |-> distances, previous |-> previous, err |-> err]
    ELSE
      LET top == HeapMin(pq)
          current_distance == top[1]
          current_node == top[2]
          rest == pq \ {top}
      IN IF current_node \in visited
         THEN DijkstraLoop(g, end, distances, previous, visited, rest, err)
         ELSE IF current_node = end
         THEN [distances |-> distances, previous |-> previous, err |-> FALSE]
         ELSE
           LET open == Neighbors(g, current_node) \ (visited \cup {current_node})
               keyError == \E v \in open : v \notin DOMAIN distances
               better == {v \in open \cap DOMAIN distances :
                            current_distance + g.w[<<current_node, v>>] < distances[v]}
               nd == [v \in DOMAIN distances |->
                        IF v \in better
                        THEN current_distance + g.w[<<current_node, v>>]
                        ELSE distances[v]]
               np == UpdatePrevious(previous, better, current_node)
               npq == rest \cup {<<nd[v], v>> : v \in better}
           IN IF keyError
              THEN [distances |-> distances, previous |-> previous, err |-> TRUE]
              ELSE DijkstraLoop(g, end, nd, np, visited \cup {current_node}, npq, FALSE)

dijkstra(g, start, end) ==
    LET distances == [v \in g.keys \cup {start} |-> IF v = start THEN 0 ELSE Infinity]
    IN DijkstraLoop(g, end, distances, <<>>, {}, {<<0, start>>}, FALSE)

RECURSIVE WalkBack(_, _, _)
\* the loop "while current is not None": path is built target first
WalkBack(previous, current, path) ==
    IF current \in DOMAIN previous
    THEN WalkBack(previous, previous[current], <<current>> \o path)
    ELSE <<current>> \o path

get_shortest_path(previous, start, end) ==
    IF end \notin DOMAIN previous /\ end # start
    THEN <<>>
    ELSE LET path == WalkBack(previous, end, <<>>)
         IN IF path[1] # start THEN <<>> ELSE path

dijkstra_with_path(g, start, end) ==
    LET d == dijkstra(g, start, end)
    IN IF d.err
       THEN [op |-> "dijkstra", err |-> TRUE, path |-> <<>>, dist |-> Infinity]
       ELSE [op |-> "dijkstra", err |-> FALSE,
             path |-> get_shortest_path(d.previous, start, end),
             dist |-> IF end \in DOMAIN d.distances THEN d.distances[end] ELSE Infinity]

(***************************************************************************)
(* astar.py                                                                *)
(***************************************************************************)
\* math.sqrt on the perfect squares the modelled coordinates produce
RECURSIVE SqrtFrom(_, _)
SqrtFrom(n, r) == IF (r + 1) * (r + 1) > n THEN r ELSE SqrtFrom(n, r + 1)

Sqrt(n) == SqrtFrom(n, 0)

\* coordinates maps a node to <<x, y>>; a node without an entry gets 0
heuristic_euclidean(node1, node2, coordinates) ==
    IF node1 \notin DOMAIN coordinates \/ node2 \notin DOMAIN coordinates
    THEN 0
    ELSE LET x1 == coordinates[node1][1]
             y1 == coordinates[node1][2]
             x2 == coordinates[node2][1]
             y2 == coordinates[node2][2]
         IN Sqrt((x2 - x1) * (x2 - x1) + (y2 - y1) * (y2 - y1))

\* "if neighbor in closed_set: continue"
AstarSkipClosed(neighbor, closed_set) == neighbor \in closed_set

\* "while current in came_from: path.append(current) ..." then path.append(start)
RECURSIVE AstarPath(_, _, _, _)
AstarPath(came_from, start, current, path) ==
    IF current \in DOMAIN came_from
    THEN AstarPath(came_from, start, came_from[current], <<current>> \o path)
    ELSE <<start>> \o path

RECURSIVE AstarLoop(_, _, _, _, _, _, _, _, _, _)
AstarLoop(g, start, end, coordinates, open_set, came_from, g_score, open_set_hash, closed_set, nodes_explored) ==
    IF open_set = {}
    THEN [op |-> "astar", err |-> FALSE, path |-> <<>>, dist |-> Infinity,
          nodes_explored |-> nodes_explored]
    ELSE
      LET top == HeapMin(open_set)
          current == top[2]
          rest == open_set \ {top}
          hash == open_set_hash \ {current}
      IN IF current = end
         THEN [op |-> "astar", err |-> FALSE,
               path |-> AstarPath(came_from, start, end, <<>>),
               dist |-> g_score[end], nodes_explored |-> nodes_explored]
         ELSE
           LET closed == closed_set \cup {current}
               cand == {v \in Neighbors(g, current) : ~AstarSkipClosed(v, closed)}
               tentative(v) == g_score[current] + g.w[<<current, v>>]
               fresh == {v \in cand : v \notin hash}
               better == fresh \cup {v \in cand \cap hash : tentative(v) < g_score[v]}
               ng == [v \in (DOMAIN g_score) \cup better |->
                        IF v \in better THEN tentative(v) ELSE g_score[v]]
               ncf == [v \in (DOMAIN came_from) \cup better |->
                        IF v \in better THEN current ELSE came_from[v]]
               pushed == {<<ng[v] + heuristic_euclidean(v, end, coordinates), v>> :
                            v \in better}
           IN AstarLoop(g, start, end, coordinates, rest \cup pushed, ncf, ng,
                        hash \cup fresh, closed, nodes_explored + 1)

astar(g, start, end, coordinates) ==
    LET g_score == [v \in g.keys \cup {start} |-> IF v = start THEN 0 ELSE Infinity]
    IN AstarLoop(g, start, end, coordinates, {<<0, start>>}, <<>>, g_score,
                 {start}, {}, 0)

(***************************************************************************)
(* bellman_ford.py                                                         *)
(***************************************************************************)
\* the edge list, in dictionary iteration order
RECURSIVE SortedSeq(_)
SortedSeq(S) ==
    IF S = {} THEN <<>>
    ELSE LET m == CHOOSE a \in S : \A b \in S : a = b \/ TupleLess(a, b)
         IN <<m>> \o SortedSeq(S \ {m})

EdgeList(g) == SortedSeq(DOMAIN g.w)

\* one pass "for u, v, weight in edges" of the relaxation loop
RECURSIVE RelaxPass(_, _, _, _)
RelaxPass(g, edges, i, st) ==
    IF i > Len(edges) \/ st.err THEN st
    ELSE LET u == edges[i][1]
             v == edges[i][2]
             weight == g.w[edges[i]]
         IN IF st.distances[u] = Infinity
            THEN RelaxPass(g, edges, i + 1, st)
            ELSE IF v \notin DOMAIN st.distances
            THEN [st EXCEPT !.err = TRUE]
            ELSE IF st.distances[u] + weight < st.distances[v]
            THEN RelaxPass(g, edges, i + 1,
                   [st EXCEPT !.distances = [st.distances EXCEPT ![v] = st.distances[u] + weight],
                              !.previous = [x \in (DOMAIN st.previous) \cup {v} |->
                                              IF x = v THEN u ELSE st.previous[x]]])
            ELSE RelaxPass(g, edges, i + 1, st)

\* one relaxation round too few
RoundsOneShort(g) == Cardinality(g.keys) - 2

\* "for _ in range(len(nodes) - 1)"
Rounds(g) == Cardinality(g.keys) - 1

RECURSIVE RelaxRounds(_, _, _, _)
RelaxRounds(g, edges, n, st) ==
    IF n <= 0 \/ st.err THEN st
    ELSE RelaxRounds(g, edges, n - 1, RelaxPass(g, edges, 1, st))

\* the detection pass: the first edge that can still be relaxed
RECURSIVE CheckPass(_, _, _, _)
CheckPass(g, edges, i, st) ==
    IF i > Len(edges) THEN [err |-> FALSE, found |-> FALSE]
    ELSE LET u == edges[i][1]
             v == edges[i][2]
             weight == g.w[edges[i]]
         IN IF st.distances[u] = Infinity
            THEN CheckPass(g, edges, i + 1, st)
            ELSE IF v \notin DOMAIN st.distances
            THEN [err |-> TRUE, found |-> FALSE]
            ELSE IF st.distances[u] + weight < st.distances[v]
            THEN [err |-> FALSE, found |-> TRUE]
            ELSE CheckPass(g, edges, i + 1, st)

bellman_ford(g, start) ==
    LET distances == [v \in g.keys \cup {start} |-> IF v = start THEN 0 ELSE Infinity]
        edges == EdgeList(g)
        st == RelaxRounds(g, edges, Rounds(g),
                          [distances |-> distances, previous |-> <<>>, err |-> FALSE])
        chk == IF st.err THEN [err |-> TRUE, found |-> FALSE]
               ELSE CheckPass(g, edges, 1, st)
    IN [distances |-> st.distances, previous |-> st.previous,
        has_negative_cycle |-> chk.found, err |-> st.err \/ chk.err]

(***************************************************************************)
(* Python floats.  A non-negative double is kept exactly, as an integer    *)
(* part and the digits of its fraction in base 2^16:                       *)
(* [int |-> n, frac |-> <<f1, .., f5>>] stands for n + f1/2^16 + f2/2^32   *)
(* + ...  Every operation computes the exact result and rounds it to the   *)
(* 53 significant bits of a double, ties to even, as int / int,            *)
(* int * float and float + float do.                                       *)
(***************************************************************************)
MantissaBits == 53
LimbBits == 16
NumLimbs == 5
LimbBase == 2 ^ LimbBits
FracBits == NumLimbs * LimbBits

Min2(a, b) == IF a < b THEN a ELSE b

Max2(a, b) == IF a > b THEN a ELSE b

\* the number of binary digits of n >= 0
BitLen(n) ==
    IF n = 0 THEN 0
    ELSE CHOOSE k \in 1..31 : 2 ^ (k - 1) <= n /\ (k = 31 \/ n < 2 ^ k)

FloatOfInt(n) == [int |-> n, frac |-> [j \in 1..NumLimbs |-> 0]]

\* the i-th binary digit after the point
Bit(frac, i) ==
    (frac[(i - 1) \div LimbBits + 1] \div 2 ^ (LimbBits - 1 - ((i - 1) % LimbBits))) % 2

LeadingZeros(frac) ==
    IF \A i \in 1..FracBits : Bit(frac, i) = 0 THEN FracBits
    ELSE (CHOOSE i \in 1..FracBits :
             Bit(frac, i) = 1 /\ \A j \in 1..(i - 1) : Bit(frac, j) = 0) - 1

\* the first keep binary digits after the point
Truncate(frac, keep) ==
    [j \in 1..NumLimbs |->
        frac[j] - (frac[j] % (2 ^ Min2(LimbBits, Max2(0, j * LimbBits - keep))))]

\* one unit in the keep-th place after the point
Ulp(keep) ==
    [int |-> IF keep = 0 THEN 1 ELSE 0,
     frac |-> [j \in 1..NumLimbs |->
                  IF (j - 1) * LimbBits < keep /\ keep <= j * LimbBits
                  THEN 2 ^ (j * LimbBits - keep) ELSE 0]]

RECURSIVE AddLimbs(_, _, _, _, _)
AddLimbs(a, b, j, carry, acc) ==
    IF j = 0 THEN [carry |-> carry, frac |-> acc]
    ELSE LET t == a[j] + b[j] + carry
         IN AddLimbs(a, b, j - 1, t \div LimbBase, <<t % LimbBase>> \o acc)

ExactAdd(x, y) ==
    LET m == AddLimbs(x.frac, y.frac, NumLimbs, 0, <<>>)
    IN [int |-> x.int + y.int + m.carry, frac |-> m.frac]

\* round to nearest, ties to even; sticky: the exact value has more non-zero digits
RoundToDouble(d, sticky) ==
    LET k == BitLen(d.int)
        keep == IF k > 0 THEN MantissaBits - k
                ELSE MantissaBits + LeadingZeros(d.frac)
    IN IF keep >= FracBits THEN d
       ELSE LET guard == Bit(d.frac, keep + 1)
                rest == sticky \/ \E i \in (keep + 2)..FracBits : Bit(d.frac, i) = 1
                lsb == IF keep > 0 THEN Bit(d.frac, keep) ELSE d.int % 2
                kept == [int |-> d.int, frac |-> Truncate(d.frac, keep)]
            IN IF guard = 1 /\ (rest \/ lsb = 1)
               THEN ExactAdd(kept, Ulp(keep)) ELSE kept

\* long division: the digits of rem / b after the point
RECURSIVE DivLimbs(_, _, _, _)
DivLimbs(rem, b, j, acc) ==
    IF j > NumLimbs THEN [frac |-> acc, sticky |-> rem # 0]
    ELSE DivLimbs((rem * LimbBase) % b, b, j + 1,
                  Append(acc, (rem * LimbBase) \div b))

\* a / b for integers a >= 0, b > 0
FloatDiv(a, b) ==
    LET q == DivLimbs(a % b, b, 1, <<>>)
    IN RoundToDouble([int |-> a \div b, frac |-> q.frac], q.sticky)

RECURSIVE MulLimbs(_, _, _, _, _)
MulLimbs(p, frac, j, carry, acc) ==
    IF j = 0 THEN [carry |-> carry, frac |-> acc]
    ELSE LET t == p * frac[j] + carry
         IN MulLimbs(p, frac, j - 1, t \div LimbBase, <<t % LimbBase>> \o acc)

\* p * d for an integer p >= 0 and a float d
FloatMulInt(p, d) ==
    LET m == MulLimbs(p, d.frac, NumLimbs, 0, <<>>)
    IN RoundToDouble([int |-> p * d.int + m.carry, frac |-> m.frac], FALSE)

\* x + y for floats
FloatAdd(x, y) == RoundToDouble(ExactAdd(x, y), FALSE)

\* x < y for floats
FloatLess(x, y) ==
    \/ x.int < y.int
    \/ /\ x.int = y.int
       /\ \E j \in 1..NumLimbs :
             x.frac[j] < y.frac[j] /\ \A i \in 1..(j - 1) : x.frac[i] = y.frac[i]

(***************************************************************************)
(* State machine                                                           *)
(***************************************************************************)
EdgeSets(N, k) ==
    {E \in SUBSET {e \in N \X N : e[1] # e[2]} : Cardinality(E) <= k}

Sources(E) == {e[1] : e \in E}

\* coordinate assignments of create_coordinates_dict: points on the x axis
CoordAssignments(N) == [N -> {<<x, 0>> : x \in CoordSet}]

InitPath ==
    /\ \E E \in EdgeSets(Node, MaxEdges) : \E w \in [E -> WeightSet] :
       \E allKeys \in BOOLEAN :
          graph = [nodes |-> Node,
                   keys |-> IF allKeys THEN Node ELSE Sources(E), w |-> w]
    /\ src \in Node
    /\ tgt \in Node
    /\ pc = "idle"
    /\ walk = <<>>
    /\ deliveries = <<>>
    /\ args = <<>>
    /\ locals = <<>>
    /\ history = <<>>
    /\ db = NoDatabase
    /\ res = NoResult

\* Dijkstra and A* are called on graphs with non-negative weights only
RunDijkstra ==
    /\ pc = "idle"
    /\ NonNegative(graph)
    /\ res' = dijkstra_with_path(graph, src, tgt)
    /\ pc' = "done"
    /\ UNCHANGED <<graph, src, tgt, walk, planVars, envVars>>

RunAstar ==
    /\ pc = "idle"
    /\ NonNegative(graph)
    /\ \E coordinates \in CoordAssignments(graph.nodes) :
          res' = astar(graph, src, tgt, coordinates) @@ [coordinates |-> coordinates]
    /\ pc' = "done"
    /\ UNCHANGED <<graph, src, tgt, walk, planVars, envVars>>

RunBellmanFord ==
    /\ pc = "idle"
    /\ res' = bellman_ford(graph, src) @@ [op |-> "bellman_ford"]
    /\ pc' = "done"
    /\ UNCHANGED <<graph, src, tgt, walk, planVars, envVars>>

\* bellman_ford_with_path up to the entry of get_path_bellman_ford's loop
BellmanFordCall ==
    /\ pc = "idle"
    /\ LET bf == bellman_ford(graph, src)
       IN IF bf.err
          THEN /\ res' = [op |-> "bellman", err |-> TRUE, path |-> <<>>,
                          dist |-> Infinity, has_negative_cycle |-> FALSE]
               /\ pc' = "done"
               /\ UNCHANGED walk
          ELSE IF tgt \notin DOMAIN bf.previous /\ tgt # src
          THEN /\ res' = [op |-> "bellman", err |-> FALSE, path |-> <<>>,
                          dist |-> IF tgt \in DOMAIN bf.distances
                                   THEN bf.distances[tgt] ELSE Infinity,
                          has_negative_cycle |-> bf.has_negative_cycle]
               /\ pc' = "done"
               /\ UNCHANGED walk
          ELSE /\ pc' = "bf_walk"
               /\ walk' = [bf |-> bf, current |-> tgt, path |-> <<>>]
               /\ UNCHANGED res
    /\ UNCHANGED <<graph, src, tgt, planVars, envVars>>

\* one iteration of "while current is not None" (0 stands for None)
BFWalkStep ==
    /\ pc = "bf_walk"
    /\ walk.current # 0
    /\ Len(walk.path) < MaxWalk
    /\ walk' = [walk EXCEPT
                  !.path = <<walk.current>> \o walk.path,
                  !.current = IF walk.current \in DOMAIN walk.bf.previous
                              THEN walk.bf.previous[walk.current] ELSE 0]
    /\ UNCHANGED <<graph, src, tgt, pc, res, planVars, envVars>>

\* the loop has ended: reverse, check the first node, return
BFWalkReturn ==
    /\ pc = "bf_walk"
    /\ walk.current = 0
    /\ res' = [op |-> "bellman", err |-> FALSE,
               path |-> IF walk.path[1] # src THEN <<>> ELSE walk.path,
               dist |-> IF tgt \in DOMAIN walk.bf.distances
                        THEN walk.bf.distances[tgt] ELSE Infinity,
               has_negative_cycle |-> walk.bf.has_negative_cycle]
    /\ pc' = "done"
    /\ walk' = <<>>
    /\ UNCHANGED <<graph, src, tgt, planVars, envVars>>

NextPath ==
    \/ RunDijkstra
    \/ RunAstar
    \/ RunBellmanFord
    \/ BellmanFordCall
    \/ BFWalkStep
    \/ BFWalkReturn

SpecPath == InitPath /\ [][NextPath]_vars

\* Dijkstra and A* side by side on larger graphs: one node and one edge more,
\* every node a key, non-negative weights
AstarNode == 1..(NumNodes + 1)

InitAstar ==
    /\ \E E \in EdgeSets(AstarNode, MaxEdges + 1) :
       \E w \in [E -> {x \in WeightSet : x >= 0}] :
          graph = [nodes |-> AstarNode, keys |-> AstarNode, w |-> w]
    /\ src \in AstarNode
    /\ tgt \in AstarNode
    /\ pc = "idle"
    /\ walk = <<>>
    /\ deliveries = <<>>
    /\ args = <<>>
    /\ locals = <<>>
    /\ history = <<>>
    /\ db = NoDatabase
    /\ res = NoResult

NextAstar ==
    \/ RunDijkstra
    \/ RunAstar

SpecAstar == InitAstar /\ [][NextAstar]_vars

(***************************************************************************)
(* Reference notions the claims are stated with (not taken from the code). *)
(***************************************************************************)
Last(p) == p[Len(p)]

NodesOf(p) == {p[i] : i \in 1..Len(p)}

\* the simple paths (no node twice) of the graph
SimplePaths(g) ==
    LET N == Cardinality(g.nodes)
        Ext(P) == UNION {{Append(p, v) : v \in Neighbors(g, Last(p)) \ NodesOf(p)} : p \in P}
        Lvl[k \in 1..N] == IF k = 1 THEN {<<v>> : v \in g.nodes} ELSE Ext(Lvl[k - 1])
    IN UNION {Lvl[k] : k \in 1..N}

Contiguous(g, p) == \A i \in 1..(Len(p) - 1) : <<p[i], p[i + 1]>> \in DOMAIN g.w

RECURSIVE PathWeightFrom(_, _, _)
PathWeightFrom(g, p, i) ==
    IF i >= Len(p) THEN 0 ELSE g.w[<<p[i], p[i + 1]>>] + PathWeightFrom(g, p, i + 1)

PathWeight(g, p) == PathWeightFrom(g, p, 1)

SetMin(S) == CHOOSE x \in S : \A y \in S : x <= y

PathsBetween(g, s, t) == {p \in SimplePaths(g) : p[1] = s /\ Last(p) = t}

Reachable(g, s, t) == PathsBetween(g, s, t) # {}

\* length of a shortest path (weights without negative cycles)
TrueDist(g, s, t) ==
    IF Reachable(g, s, t)
    THEN SetMin({PathWeight(g, p) : p \in PathsBetween(g, s, t)})
    ELSE Infinity

\* the heuristic never exceeds the true remaining cost
Admissible(g, t, coordinates) ==
    \A n \in g.nodes : heuristic_euclidean(n, t, coordinates) <= TrueDist(g, n, t)

\* h(u) <= w(u, v) + h(v) on every edge
Consistent(g, t, coordinates) ==
    \A e \in DOMAIN g.w :
        heuristic_euclidean(e[1], t, coordinates)
            <= g.w[e] + heuristic_euclidean(e[2], t, coordinates)

\* a cycle of negative total weight that can be reached from s
NegCycleReachable(g, s) ==
    \E p \in SimplePaths(g) :
        /\ <<Last(p), p[1]>> \in DOMAIN g.w
        /\ PathWeight(g, p) + g.w[<<Last(p), p[1]>>] < 0
        /\ Reachable(g, s, p[1])

Returned(o) == pc = "done" /\ res.op = o

(***************************************************************************)
(* Claims about the shortest-path solvers.                                 *)
(***************************************************************************)
\* C1: on a graph with non-negative weights whose nodes are all keys, and for
\* coordinates that make the Euclidean heuristic admissible, astar returns the
\* distance dijkstra_with_path returns, for every pair (source, target).
C1_AstarEqualsDijkstra ==
    (/\ Returned("astar") /\ NonNegative(graph) /\ AllKeys(graph)
     /\ Admissible(graph, tgt, res.coordinates))
        => res.dist = dijkstra_with_path(graph, src, tgt).dist

\* C2: on a graph whose nodes are all keys, bellman_ford(graph, start) reports
\* has_negative_cycle exactly when a negative-weight cycle is reachable from start.
C2_NegativeCycleFlag ==
    (Returned("bellman_ford") /\ AllKeys(graph))
        => (~res.err /\ (res.has_negative_cycle <=> NegCycleReachable(graph, src)))

C2_Witness ==
    /\ Returned("bellman_ford") /\ AllKeys(graph)
    /\ res.has_negative_cycle
    /\ \E e \in DOMAIN graph.w : graph.w[e] > 0

\* C3: bellman_ford_with_path terminates on every graph: the predecessor walk of
\* get_path_bellman_ford never comes back to a node it has already appended
\* (a walk that does so follows the same predecessors for ever).
C3_WalkTerminates ==
    pc = "bf_walk" => walk.current \notin NodesOf(walk.path)

\* C4: every non-empty path returned by dijkstra_with_path, astar or
\* bellman_ford_with_path (the latter without a reachable negative cycle) is
\* contiguous and its edge weights sum to the returned distance.
C4_PathMatchesDistance ==
    (/\ pc = "done" /\ res.op \in {"dijkstra", "astar", "bellman"}
     /\ ~res.err /\ res.path # <<>>
     /\ (res.op = "bellman" => ~NegCycleReachable(graph, src)))
        => (Contiguous(graph, res.path) /\ res.dist = PathWeight(graph, res.path))

C4_Witness ==
    /\ Returned("dijkstra") /\ ~res.err
    /\ Len(res.path) = 3
    /\ <<src, tgt>> \in DOMAIN graph.w
    /\ res.dist = PathWeight(graph, res.path)

\* C5: for each solver and every (graph, source, target) no exception is raised,
\* the returned path is empty or leads from source to target, and it is empty
\* exactly when target is unreachable, in which case the distance is infinity.
C5_PathEndpoints ==
    (pc = "done" /\ res.op \in {"dijkstra", "astar", "bellman"})
        => /\ ~res.err
           /\ res.path # <<>> => (res.path[1] = src /\ Last(res.path) = tgt)
           /\ res.path = <<>> <=> ~Reachable(graph, src, tgt)
           /\ res.path = <<>> => res.dist = Infinity

(***************************************************************************)
(* Capacity planning: server/algorithms/knapsack.py and plan_capacity of   *)
(* server/flask_app.py.  An item is a record with the keys of the          *)
(* dictionary; a list of items is a sequence.                              *)
(***************************************************************************)
MaxItems == 3
MaxCapacity == 3
LoadSet == {1, 2, 49}
ProfitSet == {0, 1, 2, 49}

Reverse(s) == [i \in 1..Len(s) |-> s[Len(s) + 1 - i]]

\* a list built by a comprehension: its entries are computed once, when it is built
Stored(f) == f @@ <<>>

\* a row that adds the value to the cell of the same column
DpRowKeepsColumn(prev, weight, value, capacity) ==
    Stored([w \in 0..capacity |->
        IF weight <= w THEN Max2(prev[w], prev[w] + value) ELSE prev[w]])

\* row i of the table from row i - 1, cells 0..capacity
DpRow(prev, weight, value, capacity) ==
    Stored([w \in 0..capacity |->
        IF weight <= w THEN Max2(prev[w], prev[w - weight] + value) ELSE prev[w]])

\* the rows 0..n of the table: dp[i + 1] is row i
RECURSIVE DpTable(_, _, _)
DpTable(items, capacity, dp) ==
    IF Len(dp) > Len(items) THEN dp
    ELSE LET item == items[Len(dp)]
         IN DpTable(items, capacity,
                    Append(dp, DpRow(dp[Len(dp)], item.load, item.profit, capacity)))

\* for i in range(n, 0, -1): the items whose cell differs from the cell above
RECURSIVE Backtrack(_, _, _, _, _, _)
Backtrack(dp, items, i, w, selected, total_weight) ==
    IF i = 0 THEN [selected |-> selected, total_weight |-> total_weight]
    ELSE IF dp[i + 1][w] # dp[i][w]
    THEN Backtrack(dp, items, i - 1, w - items[i].load,
                   Append(selected, i), total_weight + items[i].load)
    ELSE Backtrack(dp, items, i - 1, w, selected, total_weight)

\* selected: the positions in items of the returned dictionaries
knapsack_01(items, capacity) ==
    IF items = <<>> \/ capacity <= 0
    THEN [op |-> "knapsack_01", selected |-> <<>>, selected_items |-> <<>>,
          total_value |-> 0, total_weight |-> 0]
    ELSE LET n == Len(items)
             dp == DpTable(items, capacity, <<[w \in 0..capacity |-> 0]>>)
             bt == Backtrack(dp, items, n, capacity, <<>>, 0)
             selected == Reverse(bt.selected)
         IN [op |-> "knapsack_01", selected |-> selected,
             selected_items |-> [k \in 1..Len(selected) |-> items[selected[k]]],
             total_value |-> dp[n + 1][capacity],
             total_weight |-> bt.total_weight]

Ratio(item) ==
    IF item.load > 0 THEN FloatDiv(item.profit, item.load) ELSE FloatOfInt(0)

\* item['ratio'] = ... on every dictionary of the caller's list
SetRatio(items) == [i \in 1..Len(items) |-> [ratio |-> Ratio(items[i])] @@ items[i]]

\* position of item i after sorted(..., reverse=True): the sort is stable
RatioRank(items, i) ==
    1 + Cardinality({j \in 1..Len(items) :
                        \/ FloatLess(items[i].ratio, items[j].ratio)
                        \/ j < i /\ items[j].ratio = items[i].ratio})

SortedByRatio(items) ==
    [k \in 1..Len(items) |->
        items[CHOOSE i \in 1..Len(items) : RatioRank(items, i) = k]]

\* the loop over sorted_items; the fractional pick breaks out of it
RECURSIVE TakeItems(_, _, _)
TakeItems(sorted_items, k, st) ==
    IF k > Len(sorted_items) THEN st
    ELSE LET item == sorted_items[k]
         IN IF st.remaining_capacity >= item.load
            THEN TakeItems(sorted_items, k + 1,
                    [selected_items |->
                        Append(st.selected_items, [fraction |-> FloatOfInt(1)] @@ item),
                     total_value |-> FloatAdd(st.total_value, FloatOfInt(item.profit)),
                     total_weight |-> FloatAdd(st.total_weight, FloatOfInt(item.load)),
                     remaining_capacity |-> st.remaining_capacity - item.load])
            ELSE IF st.remaining_capacity > 0
            THEN LET fraction == FloatDiv(st.remaining_capacity, item.load)
                 IN [selected_items |->
                        Append(st.selected_items, [fraction |-> fraction] @@ item),
                     total_value |->
                        FloatAdd(st.total_value, FloatMulInt(item.profit, fraction)),
                     total_weight |->
                        FloatAdd(st.total_weight, FloatMulInt(item.load, fraction)),
                     remaining_capacity |-> 0]
            ELSE TakeItems(sorted_items, k + 1, st)

\* items: the caller's list after the call; the totals are kept as floats
fractional_knapsack(items, capacity) ==
    IF items = <<>> \/ capacity <= 0
    THEN [op |-> "fractional_knapsack", items |-> items, selected_items |-> <<>>,
          total_value |-> FloatOfInt(0), total_weight |-> FloatOfInt(0)]
    ELSE LET rated == SetRatio(items)
             st == TakeItems(SortedByRatio(rated), 1,
                             [selected_items |-> <<>>, total_value |-> FloatOfInt(0),
                              total_weight |-> FloatOfInt(0),
                              remaining_capacity |-> capacity])
         IN [op |-> "fractional_knapsack", items |-> rated,
             selected_items |-> st.selected_items,
             total_value |-> st.total_value, total_weight |-> st.total_weight]

ItemOf(delivery) ==
    [id |-> delivery.id, name |-> delivery.name, location |-> delivery.location,
     load |-> delivery.load, profit |-> delivery.profit,
     priority |-> delivery.priority, timeWindow |-> delivery.timeWindow]

\* optimize_delivery_selection(deliveries, capacity, "01")
optimize_delivery_selection(ds, capacity) ==
    IF ds = <<>>
    THEN [selected_deliveries |-> <<>>, total_value |-> 0, total_weight |-> 0,
          capacity_utilization |-> FloatOfInt(0)]
    ELSE LET k == knapsack_01([i \in 1..Len(ds) |-> ItemOf(ds[i])], capacity)
         IN [selected_deliveries |-> k.selected_items,
             total_value |-> k.total_value,
             total_weight |-> k.total_weight,
             capacity_utilization |->
                IF capacity > 0
                THEN FloatMulInt(100, FloatDiv(k.total_weight, capacity))
                ELSE FloatOfInt(0),
             remaining_capacity |-> capacity - k.total_weight]

\* the keys plan_capacity reads from the result, in the order it reads them
PlanKeys ==
    <<"selected_deliveries", "total_value", "total_weight",
      "capacity_utilization", "remaining_capacity">>

\* a key that is missing raises KeyError, which the handler turns into an error value
plan_capacity(ds, capacity) ==
    LET result == optimize_delivery_selection(ds, capacity)
        missing == {k \in 1..Len(PlanKeys) : PlanKeys[k] \notin DOMAIN result}
    IN IF missing # {}
       THEN [op |-> "plan_capacity",
             error |-> PlanKeys[CHOOSE k \in missing : \A j \in missing : k <= j]]
       ELSE [op |-> "plan_capacity",
             selectedDeliveries |-> result.selected_deliveries,
             totalValue |-> result.total_value,
             totalWeight |-> result.total_weight,
             capacityUtilization |-> result.capacity_utilization,
             remainingCapacity |-> result.remaining_capacity]

\* a delivery record as the client sends it; times are counted in half hours
MakeDelivery(i, priority, window, load, profit) ==
    [id |-> i, name |-> i, location |-> i, load |-> load, profit |-> profit,
     priority |-> priority, timeWindow |-> window]

NoGraph == [nodes |-> {}, keys |-> {}, w |-> <<>>]

InitKnap ==
    /\ \E n \in 0..MaxItems : \E kind \in [1..n -> LoadSet \X ProfitSet] :
          deliveries = [i \in 1..n |->
                           MakeDelivery(i, "Normal", [start |-> 0, end |-> 2],
                                        kind[i][1], kind[i][2])]
    /\ \E capacity \in 0..MaxCapacity : args = [capacity |-> capacity]
    /\ graph = NoGraph
    /\ src = 0
    /\ tgt = 0
    /\ pc = "idle"
    /\ walk = <<>>
    /\ locals = <<>>
    /\ history = <<>>
    /\ db = NoDatabase
    /\ res = NoResult

RunKnapsack01 ==
    /\ pc = "idle"
    /\ "capacity" \in DOMAIN args
    /\ res' = knapsack_01(deliveries, args.capacity)
    /\ pc' = "done"
    /\ UNCHANGED <<pathVars, envVars, planVars>>

RunFractionalKnapsack ==
    /\ pc = "idle"
    /\ "capacity" \in DOMAIN args
    /\ LET r == fractional_knapsack(deliveries, args.capacity)
       IN /\ res' = [op |-> r.op, selected_items |-> r.selected_items,
                     total_value |-> r.total_value, total_weight |-> r.total_weight]
          /\ deliveries' = r.items
    /\ pc' = "done"
    /\ UNCHANGED <<pathVars, envVars, args, locals>>

RunPlanCapacity ==
    /\ pc = "idle"
    /\ "capacity" \in DOMAIN args
    /\ res' = plan_capacity(deliveries, args.capacity)
    /\ pc' = "done"
    /\ UNCHANGED <<pathVars, envVars, planVars>>

NextKnap ==
    \/ RunKnapsack01
    \/ RunFractionalKnapsack
    \/ RunPlanCapacity

SpecKnap == InitKnap /\ [][NextKnap]_vars

(***************************************************************************)
(* Claims about capacity planning.                                         *)
(***************************************************************************)
RECURSIVE SumLoad(_, _)
SumLoad(ds, S) ==
    IF S = {} THEN 0
    ELSE LET i == CHOOSE i \in S : TRUE IN ds[i].load + SumLoad(ds, S \ {i})

RECURSIVE SumProfit(_, _)
SumProfit(ds, S) ==
    IF S = {} THEN 0
    ELSE LET i == CHOOSE i \in S : TRUE IN ds[i].profit + SumProfit(ds, S \ {i})

Range(s) == {s[i] : i \in 1..Len(s)}

\* C6: for items with positive integer loads and non-negative profits and a
\* non-negative integer capacity, knapsack_01 returns items of the list, none
\* of them twice, whose loads sum to at most capacity; total_weight is the sum
\* of their loads and total_value the sum of their profits.
C6_SelectionFeasible ==
    Returned("knapsack_01")
        => /\ Range(res.selected) \subseteq 1..Len(deliveries)
           /\ Cardinality(Range(res.selected)) = Len(res.selected)
           /\ res.selected_items = [k \in 1..Len(res.selected) |-> deliveries[res.selected[k]]]
           /\ SumLoad(deliveries, Range(res.selected)) <= args.capacity
           /\ res.total_weight = SumLoad(deliveries, Range(res.selected))
           /\ res.total_value = SumProfit(deliveries, Range(res.selected))

C6_Witness ==
    /\ Returned("knapsack_01")
    /\ Len(deliveries) = 3
    /\ Len(res.selected) = 2
    /\ res.total_weight = args.capacity
    /\ res.total_value > 0

\* C7: for items with positive integer loads and non-negative profits and a
\* positive integer capacity, the total_value of knapsack_01 is at least the
\* summed profit of every set of whole items whose loads fit the capacity, and
\* at most the total_value fractional_knapsack returns for the same input.
C7_BetweenWholeAndFractional ==
    (Returned("knapsack_01") /\ args.capacity > 0)
        => /\ \A S \in SUBSET (1..Len(deliveries)) :
                 SumLoad(deliveries, S) <= args.capacity
                    => res.total_value >= SumProfit(deliveries, S)
           /\ ~FloatLess(fractional_knapsack(deliveries, args.capacity).total_value,
                         FloatOfInt(res.total_value))

\* C9: with an empty delivery set plan_capacity returns its five result fields
\* (selectedDeliveries, totalValue, totalWeight, capacityUtilization,
\* remainingCapacity) and no error value.
C9_EmptyPlanWellFormed ==
    (Returned("plan_capacity") /\ deliveries = <<>>)
        => DOMAIN res = {"op", "selectedDeliveries", "totalValue", "totalWeight",
                         "capacityUtilization", "remainingCapacity"}

(***************************************************************************)
(* Scheduling: server/algorithms/scheduler.py.  Times are counted in half  *)
(* hours, so the service time of 0.5 is 1.  The lists scheduled, selected  *)
(* and the heap hold the caller's dictionaries themselves: the model keeps *)
(* their positions in deliveries, and an assignment to a key of one of     *)
(* them changes deliveries.  The loops over the deliveries of              *)
(* greedy_scheduler and priority_scheduler advance one iteration a step.   *)
(***************************************************************************)
SmallLimit == 20
MediumLimit == 100
DefaultCapacity == 100
DefaultTimeLimit == 2 * 480
\* no time passes at a stop
NoServiceTime == 1 - 1
ServiceTime == 1

\* constraints.get(key, default)
Get(constraints, key, default) ==
    IF key \in DOMAIN constraints THEN constraints[key] ELSE default

\* delivery[key] = value, for the keys of fields
SetKeys(delivery, fields) == fields @@ delivery

\* priority_map.get(d['priority'], 1) of greedy_scheduler
GreedyPriority(priority) ==
    IF priority = "High" THEN 3 ELSE IF priority = "Normal" THEN 2 ELSE 1

\* the sort key of delivery i is larger than that of delivery j
GreedyKeyGreater(ds, i, j) ==
    LET pi == GreedyPriority(ds[i].priority)
        pj == GreedyPriority(ds[j].priority)
    IN pi > pj \/ (pi = pj /\ ds[i].timeWindow.start > ds[j].timeWindow.start)

\* sorted(deliveries, key=..., reverse=True): the positions in sorted order;
\* deliveries with equal keys keep their order
GreedyOrder(ds) ==
    LET n == Len(ds)
        rank == Stored([i \in 1..n |->
                    1 + Cardinality({j \in 1..n :
                           \/ GreedyKeyGreater(ds, j, i)
                           \/ j < i /\ ~GreedyKeyGreater(ds, i, j)})])
    IN [k \in 1..n |-> CHOOSE i \in 1..n : rank[i] = k]

\* "for delivery in selected" of dp_scheduler: the times and the status are
\* written into the selected dictionaries
RECURSIVE ScheduleSelected(_, _, _, _)
ScheduleSelected(ds, selected, k, current_time) ==
    IF k > Len(selected) THEN ds
    ELSE LET i == selected[k]
             start_time == Max2(current_time, ds[i].timeWindow.start)
         IN ScheduleSelected(
                [ds EXCEPT ![i] = SetKeys(@, [scheduled_time |-> start_time,
                                              status |-> "scheduled"])],
                selected, k + 1, start_time + ServiceTime)

\* sum(d[...] for d in scheduled) over the selected deliveries
RECURSIVE TotalLoad(_, _, _)
TotalLoad(ds, scheduled, k) ==
    IF k > Len(scheduled) THEN 0
    ELSE ds[scheduled[k]].load + TotalLoad(ds, scheduled, k + 1)

\* dp_scheduler fills and walks the table of knapsack_01; with a negative
\* capacity the rows are empty and dp[i][c] raises IndexError
dp_scheduler(ds, capacity, time_limit) ==
    IF ds = <<>>
    THEN [raised |-> "none", deliveries |-> ds, selected |-> <<>>, total_value |-> 0]
    ELSE IF capacity < 0
    THEN [raised |-> "IndexError", deliveries |-> ds, selected |-> <<>>, total_value |-> 0]
    ELSE LET n == Len(ds)
             dp == DpTable(ds, capacity, <<[c \in 0..capacity |-> 0]>>)
             selected == Reverse(Backtrack(dp, ds, n, capacity, <<>>, 0).selected)
         IN [raised |-> "none",
             deliveries |-> ScheduleSelected(ds, selected, 1, 0),
             selected |-> selected,
             total_value |-> dp[n + 1][capacity]]

\* priority_map.get(delivery['priority'], -1) of priority_scheduler
QueuePriority(priority) ==
    IF priority = "High" THEN 0 - 3 ELSE IF priority = "Normal" THEN 0 - 2 ELSE 0 - 1

\* the heap entry (priority, -end, delivery) of the delivery at position i
HeapEntry(ds, i) ==
    [priority |-> QueuePriority(ds[i].priority),
     neg_end |-> 0 - ds[i].timeWindow.end, delivery |-> i]

\* a < b for heap entries: the tuples are compared item by item, and two
\* dictionaries that are not equal cannot be ordered
EntryLess(a, b, ds) ==
    IF a.priority # b.priority
    THEN IF a.priority < b.priority THEN "less" ELSE "not_less"
    ELSE IF a.neg_end # b.neg_end
    THEN IF a.neg_end < b.neg_end THEN "less" ELSE "not_less"
    ELSE IF ds[a.delivery] = ds[b.delivery] THEN "not_less"
    ELSE "TypeError"

\* heapq._siftdown; positions count from 0, heap[pos + 1] is the entry at pos
RECURSIVE SiftDown(_, _, _, _, _)
SiftDown(heap, startpos, pos, newitem, ds) ==
    IF pos > startpos
    THEN LET parentpos == (pos - 1) \div 2
             parent == heap[parentpos + 1]
             c == EntryLess(newitem, parent, ds)
         IN IF c = "TypeError" THEN [heap |-> heap, raised |-> c]
            ELSE IF c = "less"
            THEN SiftDown([heap EXCEPT ![pos + 1] = parent], startpos, parentpos,
                          newitem, ds)
            ELSE [heap |-> [heap EXCEPT ![pos + 1] = newitem], raised |-> "none"]
    ELSE [heap |-> [heap EXCEPT ![pos + 1] = newitem], raised |-> "none"]

heappush(heap, item, ds) == SiftDown(Append(heap, item), 0, Len(heap), item, ds)

\* the loop of heapq._siftup: the smaller child moves up until a leaf is reached
RECURSIVE SiftUpLoop(_, _, _)
SiftUpLoop(heap, pos, ds) ==
    LET endpos == Len(heap)
        childpos == 2 * pos + 1
        rightpos == childpos + 1
    IN IF childpos < endpos
       THEN LET c == IF rightpos < endpos
                     THEN EntryLess(heap[childpos + 1], heap[rightpos + 1], ds)
                     ELSE "less"
                child == IF c = "less" THEN childpos ELSE rightpos
            IN IF c = "TypeError" THEN [heap |-> heap, pos |-> pos, raised |-> c]
               ELSE SiftUpLoop([heap EXCEPT ![pos + 1] = heap[child + 1]], child, ds)
       ELSE [heap |-> heap, pos |-> pos, raised |-> "none"]

\* heapq.heappop: the last entry replaces the first and is sifted into place
heappop(heap, ds) ==
    LET lastelt == heap[Len(heap)]
        rest == SubSeq(heap, 1, Len(heap) - 1)
    IN IF rest = <<>>
       THEN [item |-> lastelt, heap |-> rest, raised |-> "none"]
       ELSE LET up == SiftUpLoop([rest EXCEPT ![1] = lastelt], 0, ds)
                down == SiftDown(up.heap, 0, up.pos, lastelt, ds)
            IN IF up.raised # "none"
               THEN [item |-> heap[1], heap |-> up.heap, raised |-> up.raised]
               ELSE [item |-> heap[1], heap |-> down.heap, raised |-> down.raised]

\* what adaptive_scheduler returns after its strategy has returned; efficiency,
\* a float expression of the other metrics, is left out
AdaptiveResult(ds, scheduled, total_value, total_load, algorithm_used, capacity) ==
    [op |-> "adaptive_scheduler",
     scheduled |-> scheduled,
     scheduled_deliveries |-> [k \in 1..Len(scheduled) |-> ds[scheduled[k]]],
     algorithm_used |-> algorithm_used,
     total_value |-> total_value,
     metrics |-> [total_deliveries |-> Len(scheduled),
                  capacity_used |-> total_load,
                  capacity_utilization |->
                     IF capacity > 0
                     THEN FloatMulInt(100, FloatDiv(total_load, capacity))
                     ELSE FloatOfInt(0),
                  total_value |-> total_value,
                  algorithm_used |-> algorithm_used]]

\* an exception leaves adaptive_scheduler: nothing is returned
AdaptiveRaised(exception) == [op |-> "adaptive_scheduler", raised |-> exception]

(***************************************************************************)
(* The scheduler calls.  The first HeadLen deliveries of a list are drawn  *)
(* freely; the others differ pairwise in (priority, time-window end).      *)
(***************************************************************************)
HeadLen == 2
SizeSet == {0, 1, 2, SmallLimit, SmallLimit + 1, MediumLimit, MediumLimit + 1}
PrioritySet == {"High", "Normal", "Low"}
WindowSet == {[start |-> 0, end |-> 1], [start |-> 2, end |-> 4]}
LoadProfitSet == {<<1, 1>>, <<2, 3>>}
ConstraintSet == {<<>>, [capacity |-> 3, time_limit |-> 4], [capacity |-> 0 - 1]}

Filler(i) ==
    MakeDelivery(i, IF i % 3 = 0 THEN "High" ELSE IF i % 3 = 1 THEN "Normal" ELSE "Low",
                 [start |-> 0, end |-> 2 * (i \div 3) + 2], 1, 1)

InitSched ==
    /\ \E n \in SizeSet : \E m \in {IF n < HeadLen THEN n ELSE HeadLen} :
       \E head \in [1..m -> PrioritySet \X WindowSet \X LoadProfitSet] :
          deliveries = [i \in 1..n |->
               IF i <= m
               THEN MakeDelivery(i, head[i][1], head[i][2], head[i][3][1], head[i][3][2])
               ELSE Filler(i)]
    /\ \E constraints \in ConstraintSet : args = [constraints |-> constraints]
    /\ graph = NoGraph
    /\ src = 0
    /\ tgt = 0
    /\ pc = "idle"
    /\ walk = <<>>
    /\ locals = <<>>
    /\ history = <<>>
    /\ db = NoDatabase
    /\ res = NoResult

\* adaptive_scheduler up to the loop of the strategy it chooses; dp_scheduler
\* runs to its end
AdaptiveSchedulerCall ==
    /\ pc = "idle"
    /\ "constraints" \in DOMAIN args
    /\ LET n == Len(deliveries)
           capacity == Get(args.constraints, "capacity", DefaultCapacity)
           time_limit == Get(args.constraints, "time_limit", DefaultTimeLimit)
       IN IF deliveries = <<>>
          THEN /\ res' = [op |-> "adaptive_scheduler", scheduled |-> <<>>,
                          scheduled_deliveries |-> <<>>, algorithm_used |-> "none",
                          total_value |-> 0, metrics |-> <<>>]
               /\ pc' = "done"
               /\ UNCHANGED <<deliveries, locals>>
          ELSE IF n <= SmallLimit
          THEN LET r == dp_scheduler(deliveries, capacity, time_limit)
               IN /\ res' = IF r.raised # "none" THEN AdaptiveRaised(r.raised)
                            ELSE AdaptiveResult(r.deliveries, r.selected, r.total_value,
                                                TotalLoad(r.deliveries, r.selected, 1),
                                                "dynamic_programming", capacity)
                  /\ deliveries' = r.deliveries
                  /\ pc' = "done"
                  /\ UNCHANGED locals
          ELSE IF n <= MediumLimit
          THEN /\ locals' = [capacity |-> capacity, order |-> GreedyOrder(deliveries),
                             k |-> 1, scheduled |-> <<>>, current_capacity |-> 0,
                             current_time |-> 0, total_value |-> 0]
               /\ pc' = "greedy_loop"
               /\ UNCHANGED <<deliveries, res>>
          ELSE /\ locals' = [capacity |-> capacity, time_limit |-> time_limit,
                             pq |-> <<>>, k |-> 1, scheduled |-> <<>>,
                             current_time |-> 0, total_value |-> 0, total_load |-> 0]
               /\ pc' = "pq_push"
               /\ UNCHANGED <<deliveries, res>>
    /\ UNCHANGED <<pathVars, envVars, args>>

\* one iteration of "for delivery in sorted_deliveries" of greedy_scheduler
GreedyStep ==
    /\ pc = "greedy_loop"
    /\ locals.k <= Len(locals.order)
    /\ LET i == locals.order[locals.k]
           delivery == deliveries[i]
           start_time == Max2(locals.current_time, delivery.timeWindow.start)
       IN IF locals.current_capacity + delivery.load <= locals.capacity
          THEN IF locals.current_time <= delivery.timeWindow.end
               THEN /\ deliveries' =
                          [deliveries EXCEPT ![i] =
                              SetKeys(@, [scheduled_time |-> start_time,
                                          status |-> "scheduled"])]
                    /\ locals' =
                          [locals EXCEPT
                              !.k = @ + 1,
                              !.scheduled = Append(@, i),
                              !.current_capacity = @ + delivery.load,
                              !.current_time = start_time + ServiceTime,
                              !.total_value = @ + delivery.profit]
               ELSE /\ deliveries' =
                          [deliveries EXCEPT ![i] =
                              SetKeys(@, [status |-> "missed_window"])]
                    /\ locals' = [locals EXCEPT !.k = @ + 1]
          ELSE /\ deliveries' =
                     [deliveries EXCEPT ![i] =
                         SetKeys(@, [status |-> "capacity_exceeded"])]
               /\ locals' = [locals EXCEPT !.k = @ + 1]
    /\ UNCHANGED <<pathVars, envVars, args, pc, res>>

\* greedy_scheduler returns its list and metrics, adaptive_scheduler its result
GreedyReturn ==
    /\ pc = "greedy_loop"
    /\ locals.k > Len(locals.order)
    /\ res' = AdaptiveResult(deliveries, locals.scheduled, locals.total_value,
                             locals.current_capacity, "greedy", locals.capacity)
    /\ pc' = "done"
    /\ locals' = <<>>
    /\ UNCHANGED <<pathVars, envVars, deliveries, args>>

\* one iteration of "for delivery in deliveries" of priority_scheduler
PriorityPushStep ==
    /\ pc = "pq_push"
    /\ LET pushed == heappush(locals.pq, HeapEntry(deliveries, locals.k), deliveries)
       IN IF pushed.raised # "none"
          THEN /\ res' = AdaptiveRaised(pushed.raised)
               /\ pc' = "done"
               /\ locals' = <<>>
          ELSE /\ locals' = [locals EXCEPT !.pq = pushed.heap, !.k = @ + 1]
               /\ pc' = IF locals.k = Len(deliveries) THEN "pq_pop" ELSE "pq_push"
               /\ UNCHANGED res
    /\ UNCHANGED <<pathVars, envVars, deliveries, args>>

\* one iteration of "while pq and current_time < time_limit"
PriorityPopStep ==
    /\ pc = "pq_pop"
    /\ locals.pq # <<>>
    /\ locals.current_time < locals.time_limit
    /\ LET popped == heappop(locals.pq, deliveries)
           i == popped.item.delivery
           delivery == deliveries[i]
           start_time == Max2(locals.current_time, delivery.timeWindow.start)
       IN IF popped.raised # "none"
          THEN /\ res' = AdaptiveRaised(popped.raised)
               /\ pc' = "done"
               /\ locals' = <<>>
               /\ UNCHANGED deliveries
          ELSE /\ UNCHANGED <<pc, res>>
               /\ IF locals.current_time + ServiceTime <= delivery.timeWindow.end
                  THEN IF start_time + ServiceTime <= locals.time_limit
                       THEN /\ deliveries' =
                                  [deliveries EXCEPT ![i] =
                                      SetKeys(@, [scheduled_time |-> start_time,
                                                  completion_time |-> start_time + ServiceTime,
                                                  status |-> "scheduled"])]
                            /\ locals' =
                                  [locals EXCEPT
                                      !.pq = popped.heap,
                                      !.scheduled = Append(@, i),
                                      !.current_time = start_time + ServiceTime,
                                      !.total_value = @ + delivery.profit,
                                      !.total_load = @ + delivery.load]
                       ELSE /\ locals' = [locals EXCEPT !.pq = popped.heap]
                            /\ UNCHANGED deliveries
                  ELSE /\ deliveries' =
                             [deliveries EXCEPT ![i] =
                                 SetKeys(@, [status |-> "missed_deadline"])]
                       /\ locals' = [locals EXCEPT !.pq = popped.heap]
    /\ UNCHANGED <<pathVars, envVars, args>>

\* priority_scheduler returns its list, adaptive_scheduler its result
PriorityReturn ==
    /\ pc = "pq_pop"
    /\ ~(locals.pq # <<>> /\ locals.current_time < locals.time_limit)
    /\ res' = AdaptiveResult(deliveries, locals.scheduled, locals.total_value,
                             locals.total_load, "priority_based", locals.capacity)
    /\ pc' = "done"
    /\ locals' = <<>>
    /\ UNCHANGED <<pathVars, envVars, deliveries, args>>

NextSched ==
    \/ AdaptiveSchedulerCall
    \/ GreedyStep
    \/ GreedyReturn
    \/ PriorityPushStep
    \/ PriorityPopStep
    \/ PriorityReturn

SpecSched == InitSched /\ [][NextSched]_vars

(***************************************************************************)
(* Claims about the schedulers.                                            *)
(***************************************************************************)
\* C8: adaptive_scheduler completes and its strategy depends on the number n
\* of deliveries only: algorithm_used is 'dynamic_programming' for
\* 1 <= n <= 20, 'greedy' for 21 <= n <= 100 and 'priority_based' for
\* n >= 101, whatever the deliveries hold and whatever the constraints are.
C8_DispatchBySize ==
    (Returned("adaptive_scheduler") /\ Len(deliveries) >= 1)
        => /\ "raised" \notin DOMAIN res
           /\ res.algorithm_used =
                 IF Len(deliveries) <= 20 THEN "dynamic_programming"
                 ELSE IF Len(deliveries) <= 100 THEN "greedy"
                 ELSE "priority_based"

\* C10: a scheduling call leaves the caller's delivery records as they were:
\* no step of adaptive_scheduler or of one of its strategies changes a field
\* of a record of the caller's list, adds one, or reorders the list.
C10_InputsUnchanged == [][deliveries' = deliveries]_vars

\* the capacity adaptive_scheduler reads from its constraints
CapacityOf(constraints) == Get(constraints, "capacity", DefaultCapacity)

\* C12: with positive loads and a positive capacity the capacity_utilization
\* adaptive_scheduler reports lies in [0, 100]: the load of the deliveries it
\* reports, capacity_used, is at most the capacity.
C12_UtilizationBounded ==
    (/\ Returned("adaptive_scheduler")
     /\ "raised" \notin DOMAIN res
     /\ deliveries # <<>>
     /\ CapacityOf(args.constraints) > 0)
        => /\ res.metrics.capacity_used <= CapacityOf(args.constraints)
           /\ ~FloatLess(FloatOfInt(100), res.metrics.capacity_utilization)
           /\ ~FloatLess(res.metrics.capacity_utilization, FloatOfInt(0))

\* delivery a is to be served before delivery b: higher priority, or the same
\* priority and an earlier deadline
ServedBefore(a, b) ==
    \/ GreedyPriority(a.priority) > GreedyPriority(b.priority)
    \/ /\ GreedyPriority(a.priority) = GreedyPriority(b.priority)
       /\ a.timeWindow.end < b.timeWindow.end

\* C18: priority_scheduler pops by priority (High, Normal, Low) and, among
\* equal priorities, the earlier deadline first, and the order is defined for
\* every input: no step of the queue raises, and no delivery still waiting in
\* the queue is to be served before the delivery a step pops.
C18_PopOrder ==
    [][/\ (pc \in {"pq_push", "pq_pop"} /\ pc' = "done")
            => "raised" \notin DOMAIN res'
       /\ (pc = "pq_pop" /\ pc' = "pq_pop")
            => LET popped == deliveries[heappop(locals.pq, deliveries).item.delivery]
               IN \A k \in 1..Len(locals'.pq) :
                     ~ServedBefore(deliveries[locals'.pq[k].delivery], popped)]_vars

\* C19: when priority_scheduler has returned, every input delivery is in the
\* schedule with status 'scheduled' and a completion_time within time_limit,
\* or carries status 'missed_deadline'.
C19_EveryDeliveryTagged ==
    (/\ Returned("adaptive_scheduler")
     /\ "raised" \notin DOMAIN res
     /\ Len(deliveries) > MediumLimit)
        => \A i \in 1..Len(deliveries) :
              LET d == deliveries[i]
              IN /\ "status" \in DOMAIN d
                 /\ \/ d.status = "missed_deadline" /\ i \notin Range(res.scheduled)
                    \/ /\ d.status = "scheduled"
                       /\ i \in Range(res.scheduled)
                       /\ d.completion_time
                             <= Get(args.constraints, "time_limit", DefaultTimeLimit)

(***************************************************************************)
(* A caller that invokes adaptive_scheduler again over the same delivery   *)
(* records, with constraints of its choice, and keeps the results of its   *)
(* earlier invocations.  A result holds the scheduled dictionaries         *)
(* themselves: history keeps their positions and what they held when the   *)
(* result was returned.                                                    *)
(***************************************************************************)
MaxCalls == 2
ReschedSizes == {2, SmallLimit + 1, MediumLimit + 1}

InitResched ==
    /\ InitSched
    /\ Len(deliveries) \in ReschedSizes

\* the caller keeps the result it received and calls adaptive_scheduler again
InvokeAgain ==
    /\ pc = "done"
    /\ res.op = "adaptive_scheduler"
    /\ Len(history) + 1 < MaxCalls
    /\ history' = Append(history, res)
    /\ \E constraints \in ConstraintSet : args' = [constraints |-> constraints]
    /\ pc' = "idle"
    /\ res' = NoResult
    /\ UNCHANGED <<pathVars, deliveries, locals, db>>

NextResched ==
    \/ NextSched
    \/ InvokeAgain

SpecResched == InitResched /\ [][NextResched]_vars

\* C11: a result adaptive_scheduler has returned is not changed by a later
\* invocation over the same records: the scheduled_time and the status of its
\* deliveries stay what they were when it was returned; and a delivery that
\* an invocation leaves out of its schedule does not carry the status
\* 'scheduled' of an earlier invocation.
C11_ResultsFresh ==
    /\ \A h \in 1..Len(history) :
          "raised" \notin DOMAIN history[h]
             => \A k \in 1..Len(history[h].scheduled) :
                   LET now == deliveries[history[h].scheduled[k]]
                       then == history[h].scheduled_deliveries[k]
                   IN /\ now.scheduled_time = then.scheduled_time
                      /\ now.status = then.status
    /\ (Returned("adaptive_scheduler") /\ "raised" \notin DOMAIN res)
          => \A i \in 1..Len(deliveries) :
                i \notin Range(res.scheduled)
                   => ~("status" \in DOMAIN deliveries[i]
                        /\ deliveries[i].status = "scheduled")

(***************************************************************************)
(* server/algorithms/tsp_solver.py: tsp_with_time_windows.  Times are      *)
(* Python floats (hours), distances integers.  The deliveries of a route   *)
(* are not written to: the scheduled entries are copies, and the model     *)
(* handles the records themselves.                                         *)
(***************************************************************************)
AverageSpeed == 50
PriorityFactor == 10

\* 0.5, the service time of a stop
HalfHour == FloatDiv(1, 2)

\* "location in graph.get(current_node, {})"
HasEdge(g, u, v) == <<u, v>> \in DOMAIN g.w

\* max(a, b) of a float a and an integer b
FloatMaxInt(a, b) == IF FloatLess(a, FloatOfInt(b)) THEN FloatOfInt(b) ELSE a

\* a <= b of a float a and an integer b
FloatLeqInt(a, b) == ~FloatLess(FloatOfInt(b), a)

\* sorted(deliveries, key=(priority, start)): ascending, equal keys keep their
\* order; the result lists positions
TspOrder(ds) ==
    LET n == Len(ds)
        rank == Stored([i \in 1..n |->
                    1 + Cardinality({j \in 1..n :
                           \/ GreedyKeyGreater(ds, i, j)
                           \/ j < i /\ ~GreedyKeyGreater(ds, j, i)})])
    IN Stored([k \in 1..n |-> CHOOSE i \in 1..n : rank[i] = k])

\* the nearest stop wins, whatever its priority
TspScoreDistanceOnly(distance, priority) == distance

\* score = distance - (priority_map.get(delivery['priority'], 1) * 10)
TspScore(distance, priority) == distance - GreedyPriority(priority) * PriorityFactor

\* the body of the scan for a delivery with a road to it: best after it
TspBetter(delivery, k, best, distance, arrival_time) ==
    IF FloatLeqInt(arrival_time, delivery.timeWindow.end)
       /\ (best.k = 0 \/ TspScore(distance, delivery.priority) < best.score)
    THEN [k |-> k, score |-> TspScore(distance, delivery.priority),
          arrival |-> FloatMaxInt(arrival_time, delivery.timeWindow.start)]
    ELSE best

\* "for delivery in unvisited": best is [k, score, arrival], k = 0 for None
RECURSIVE TspScan(_, _, _, _, _, _)
TspScan(g, current_node, current_time, unvisited, k, best) ==
    IF k > Len(unvisited) THEN best
    ELSE IF HasEdge(g, current_node, unvisited[k].location)
    THEN TspScan(g, current_node, current_time, unvisited, k + 1,
                 TspBetter(unvisited[k], k, best,
                           g.w[<<current_node, unvisited[k].location>>],
                           FloatAdd(current_time,
                                    FloatDiv(g.w[<<current_node, unvisited[k].location>>],
                                             AverageSpeed))))
    ELSE TspScan(g, current_node, current_time, unvisited, k + 1, best)

\* unvisited.remove(best_delivery): the first entry equal to it goes
RemoveFirst(seq, x) ==
    LET k == CHOOSE i \in 1..Len(seq) :
                 seq[i] = x /\ \A j \in 1..(i - 1) : seq[j] # x
    IN SubSeq(seq, 1, k - 1) \o SubSeq(seq, k + 1, Len(seq))

\* "Move to best delivery location": the state after the stop
TspMove(g, st, best_delivery, arrival) ==
    [current_node |-> best_delivery.location,
     current_time |-> FloatAdd(arrival, HalfHour),
     path |-> Append(st.path, best_delivery.location),
     total_distance |->
        st.total_distance + g.w[<<st.current_node, best_delivery.location>>],
     scheduled_deliveries |->
        Append(st.scheduled_deliveries,
               SetKeys(best_delivery,
                       [scheduled_time |-> arrival,
                        distance_from_previous |->
                           g.w[<<st.current_node, best_delivery.location>>]])),
     unvisited |-> RemoveFirst(st.unvisited, best_delivery)]

\* "while unvisited"; TspNext goes on from the best of a scan
RECURSIVE TspLoop(_, _)
TspNext(g, st, best) ==
    IF best.k = 0 THEN st
    ELSE TspLoop(g, TspMove(g, st, st.unvisited[best.k], best.arrival))

TspLoop(g, st) ==
    IF st.unvisited = <<>> THEN st
    ELSE TspNext(g, st,
                 TspScan(g, st.current_node, st.current_time, st.unvisited, 1,
                         [k |-> 0, score |-> Infinity, arrival |-> FloatOfInt(0)]))

\* a return that appends the start whether or not a road leads back
TspReturnUnchecked(g, start, st, back) ==
    [op |-> "tsp_with_time_windows",
     path |-> Append(st.path, start),
     total_distance |-> st.total_distance,
     scheduled_deliveries |-> st.scheduled_deliveries]

\* "Return to start" and the returned tuple
TspReturn(g, start, st, back) ==
    [op |-> "tsp_with_time_windows",
     path |-> IF back THEN Append(st.path, start) ELSE st.path,
     total_distance |-> IF back
                        THEN st.total_distance + g.w[<<st.current_node, start>>]
                        ELSE st.total_distance,
     scheduled_deliveries |-> st.scheduled_deliveries]

TspEnd(g, start, st) ==
    TspReturn(g, start, st,
              st.current_node # start /\ HasEdge(g, st.current_node, start))

TspSorted(ds, order) == Stored([k \in 1..Len(ds) |-> ds[order[k]]])

tsp_with_time_windows(g, start, ds) ==
    IF ds = <<>>
    THEN [op |-> "tsp_with_time_windows", path |-> <<start>>, total_distance |-> 0,
          scheduled_deliveries |-> <<>>]
    ELSE TspEnd(g, start,
                TspLoop(g, [current_node |-> start,
                            current_time |-> FloatOfInt(0),
                            path |-> <<start>>,
                            total_distance |-> 0,
                            scheduled_deliveries |-> <<>>,
                            unvisited |-> TspSorted(ds, TspOrder(ds))]))

(***************************************************************************)
(* Calls of tsp_with_time_windows: a depot, a road map over three places   *)
(* with short and longer roads, and up to MaxStops deliveries.               *)
(***************************************************************************)
MaxStops == 2
Place == 1..3
\* the vehicle starts at the first place
Depot == CHOOSE p \in Place : \A q \in Place : p <= q
RoadLengthSet == {1, 15}
StopPrioritySet == {"High", "Low"}
StopWindowSet == {[start |-> 0, end |-> 1], [start |-> 1, end |-> 2]}

\* delivery i at a place
MakeStop(i, location, priority, window) ==
    [MakeDelivery(i, priority, window, 1, 1) EXCEPT !.location = location]

\* the deliveries lie away from the depot
StopPlace == Place \ {Depot}

StopLists ==
    UNION {[1..n -> StopPlace \X StopPrioritySet \X StopWindowSet] : n \in 0..MaxStops}

InitTsp ==
    /\ \E E \in EdgeSets(Place, MaxEdges) : \E w \in [E -> RoadLengthSet] :
          graph = [nodes |-> Place, keys |-> Place, w |-> w]
    /\ \E stops \in StopLists :
          deliveries = [i \in 1..Len(stops) |->
                           MakeStop(i, stops[i][1], stops[i][2], stops[i][3])]
    /\ src = Depot
    /\ tgt = Depot
    /\ pc = "idle"
    /\ walk = <<>>
    /\ args = <<>>
    /\ locals = <<>>
    /\ history = <<>>
    /\ db = NoDatabase
    /\ res = NoResult

RunTspWithTimeWindows ==
    /\ pc = "idle"
    /\ res' = tsp_with_time_windows(graph, src, deliveries)
    /\ pc' = "done"
    /\ UNCHANGED <<pathVars, planVars, envVars>>

NextTsp == RunTspWithTimeWindows

SpecTsp == InitTsp /\ [][NextTsp]_vars

(***************************************************************************)
(* The schedule of tsp_with_time_windows, read stop by stop (not taken     *)
(* from the code): where the vehicle stands before stop k, what the clock  *)
(* shows, and which deliveries it could serve next.                        *)
(***************************************************************************)
Chosen(k) == res.scheduled_deliveries[k]

StopNode(k) == IF k = 1 THEN src ELSE Chosen(k - 1).location

StopClock(k) ==
    IF k = 1 THEN FloatOfInt(0)
    ELSE FloatAdd(Chosen(k - 1).scheduled_time, FloatDiv(1, 2))

Pending(k) ==
    {i \in 1..Len(deliveries) : \A j \in 1..(k - 1) : Chosen(j).id # deliveries[i].id}

ArrivalAt(k, i) ==
    FloatAdd(StopClock(k),
             FloatDiv(graph.w[<<StopNode(k), deliveries[i].location>>], 50))

CanServe(k, i) ==
    /\ i \in Pending(k)
    /\ <<StopNode(k), deliveries[i].location>> \in DOMAIN graph.w
    /\ ~FloatLess(FloatOfInt(deliveries[i].timeWindow.end), ArrivalAt(k, i))

PriorityWeight(priority) ==
    CASE priority = "High" -> 3 [] priority = "Normal" -> 2 [] OTHER -> 1

StopScore(k, i) ==
    graph.w[<<StopNode(k), deliveries[i].location>>]
        - 10 * PriorityWeight(deliveries[i].priority)

\* C20: tsp_with_time_windows returns a possibly partial schedule in which
\* every input delivery occurs at most once; every scheduled delivery is
\* reached over a direct edge from the stop before it, arrives (clock +
\* distance / 50) no later than its time-window end and is scheduled no
\* earlier than its time-window start; every chosen delivery has the least
\* distance - 10 * priority weight among those that could be served; and the
\* schedule ends exactly when no unvisited delivery can be served.
C20_TspSchedule ==
    Returned("tsp_with_time_windows")
        => LET n == Len(res.scheduled_deliveries)
           IN /\ \A j, k \in 1..n : j # k => Chosen(j).id # Chosen(k).id
              /\ \A k \in 1..n :
                    \E i \in 1..Len(deliveries) :
                       /\ \A f \in DOMAIN deliveries[i] : Chosen(k)[f] = deliveries[i][f]
                       /\ CanServe(k, i)
                       /\ Chosen(k).distance_from_previous
                             = graph.w[<<StopNode(k), deliveries[i].location>>]
                       /\ ~FloatLess(Chosen(k).scheduled_time,
                                     FloatOfInt(deliveries[i].timeWindow.start))
                       /\ ~FloatLess(Chosen(k).scheduled_time, ArrivalAt(k, i))
                       /\ \A j \in 1..Len(deliveries) :
                             CanServe(k, j) => StopScore(k, i) <= StopScore(k, j)
              /\ \A i \in 1..Len(deliveries) : ~CanServe(n + 1, i)

\* a partial schedule: the first stop was chosen among two deliveries that
\* could be served, the farther one for its priority, and the other delivery,
\* although a road leads to it, is left out because it would arrive late
C20_Witness ==
    /\ Returned("tsp_with_time_windows")
    /\ Len(deliveries) = 2
    /\ Len(res.scheduled_deliveries) = 1
    /\ \A i \in 1..2 : CanServe(1, i)
    /\ \E i \in 1..2 :
          /\ Chosen(1).id # deliveries[i].id
          /\ graph.w[<<src, deliveries[i].location>>] < Chosen(1).distance_from_previous
          /\ <<Chosen(1).location, deliveries[i].location>> \in DOMAIN graph.w

(***************************************************************************)
(* optimize_route of server/flask_app.py and of render_flask_app.py (the   *)
(* deployed variant).  The fields executionTime and improvement of a       *)
(* result, which depend on the clock, and metrics.efficiency are left out. *)
(***************************************************************************)
\* get_path_bellman_ford as a function: the walk along previous either ends
\* or comes back to a node it has seen and then never ends
RECURSIVE BFWalkBack(_, _, _)
BFWalkBack(previous, current, path) ==
    IF current \in Range(path) THEN [hangs |-> TRUE, path |-> <<>>]
    ELSE IF current \in DOMAIN previous
    THEN BFWalkBack(previous, previous[current], <<current>> \o path)
    ELSE [hangs |-> FALSE, path |-> <<current>> \o path]

bellman_ford_with_path(g, start, end) ==
    LET bf == bellman_ford(g, start)
        back == IF end \notin DOMAIN bf.previous /\ end # start
                THEN [hangs |-> FALSE, path |-> <<>>]
                ELSE BFWalkBack(bf.previous, end, <<>>)
    IN [err |-> bf.err,
        hangs |-> ~bf.err /\ back.hangs,
        path |-> IF bf.err \/ back.hangs \/ back.path = <<>> THEN <<>>
                 ELSE IF back.path[1] # start THEN <<>> ELSE back.path,
        dist |-> IF end \in DOMAIN bf.distances THEN bf.distances[end] ELSE Infinity,
        has_negative_cycle |-> bf.has_negative_cycle]

\* a save_route without its try/except: a failed insert raises
save_route_raises(database, route_data, ok) ==
    IF database.use_db /\ ok
    THEN LET routes == Append(database.routes,
                              [route_list |-> route_data.optimizedRoute,
                               total_distance |-> route_data.metrics.totalDistance,
                               algorithm |-> route_data.algorithm,
                               capacity_used |-> route_data.metrics.capacityUsed])
         IN [route_id |-> Len(routes), raised |-> FALSE,
             db |-> [database EXCEPT !.routes = routes]]
    ELSE [route_id |-> 0, raised |-> database.use_db, db |-> database]

\* DatabaseManager.save_route: the id of the new row, 0 for None.  ok tells
\* whether sqlite carried out the insert; an exception inside is swallowed.
save_route(database, route_data, ok) ==
    IF ~database.use_db
    THEN [route_id |-> 0, raised |-> FALSE, db |-> database]
    ELSE IF ok
    THEN LET row == [route_list |-> route_data.optimizedRoute,
                     total_distance |-> route_data.metrics.totalDistance,
                     algorithm |-> route_data.algorithm,
                     capacity_used |-> route_data.metrics.capacityUsed]
             routes == Append(database.routes, row)
         IN [route_id |-> Len(routes), raised |-> FALSE,
             db |-> [database EXCEPT !.routes = routes]]
    ELSE [route_id |-> 0, raised |-> FALSE, db |-> database]

\* "for delivery in sorted_deliveries": admit while the load fits
RECURSIVE FilterByCapacity(_, _, _, _, _, _)
FilterByCapacity(ds, order, k, capacity, current_capacity, filtered_deliveries) ==
    IF k > Len(order) THEN filtered_deliveries
    ELSE LET delivery == ds[order[k]]
         IN IF current_capacity + delivery.load <= capacity
            THEN FilterByCapacity(ds, order, k + 1, capacity,
                                  current_capacity + delivery.load,
                                  Append(filtered_deliveries, delivery))
            ELSE FilterByCapacity(ds, order, k + 1, capacity, current_capacity,
                                  filtered_deliveries)

\* one call of the chosen shortest-path solver, as the branch reads it:
\* usable is the test "if path" ("if path and not has_negative_cycle")
RouteLeg(algorithm, g, coordinates, from, to) ==
    IF algorithm = "dijkstra"
    THEN LET r == dijkstra_with_path(g, from, to)
         IN [raised |-> r.err, hangs |-> FALSE, usable |-> r.path # <<>>,
             path |-> r.path, distance |-> r.dist, explored |-> Len(r.path)]
    ELSE IF algorithm = "astar"
    THEN LET r == astar(g, from, to, coordinates)
         IN [raised |-> r.err, hangs |-> FALSE, usable |-> r.path # <<>>,
             path |-> r.path, distance |-> r.dist, explored |-> r.nodes_explored]
    ELSE LET r == bellman_ford_with_path(g, from, to)
         IN [raised |-> r.err, hangs |-> r.hangs,
             usable |-> r.path # <<>> /\ ~r.has_negative_cycle,
             path |-> r.path, distance |-> r.dist, explored |-> Len(r.path)]

\* a leg added with its first node, so that the junction occurs twice
TakeLegWholePath(st, leg, target) ==
    IF leg.raised \/ leg.hangs
    THEN [st EXCEPT !.raised = leg.raised, !.hangs = leg.hangs]
    ELSE IF leg.usable
    THEN [st EXCEPT !.route_path = @ \o leg.path,
                    !.total_distance = @ + leg.distance,
                    !.nodes_explored = @ + leg.explored,
                    !.current_location = target]
    ELSE st

\* route_path.extend(path[1:]) and the sums, when the leg is usable
TakeLeg(st, leg, target) ==
    IF leg.raised \/ leg.hangs
    THEN [st EXCEPT !.raised = leg.raised, !.hangs = leg.hangs]
    ELSE IF leg.usable
    THEN [st EXCEPT !.route_path = @ \o SubSeq(leg.path, 2, Len(leg.path)),
                    !.total_distance = @ + leg.distance,
                    !.nodes_explored = @ + leg.explored,
                    !.current_location = target]
    ELSE st

\* "for delivery in deliveries" of a shortest-path branch
RECURSIVE RouteLegs(_, _, _, _, _, _)
RouteLegs(algorithm, g, coordinates, ds, k, st) ==
    IF k > Len(ds) \/ st.raised \/ st.hangs THEN st
    ELSE LET target == ds[k].location
         IN RouteLegs(algorithm, g, coordinates, ds, k + 1,
                      TakeLeg(st, RouteLeg(algorithm, g, coordinates,
                                           st.current_location, target), target))

ShortestPathAlgorithms == {"dijkstra", "astar", "bellman"}

\* "Return to source": the leg back, which does not move current_location
ReturnLeg(variant, algorithm, g, coordinates, source, st) ==
    IF st.raised \/ st.hangs \/ ~(variant = "server" \/ st.current_location # source)
    THEN st
    ELSE TakeLeg(st, RouteLeg(algorithm, g, coordinates, st.current_location, source),
                 st.current_location)

\* what a shortest-path branch leaves in route_path, total_distance and
\* nodes_explored
BranchOfLegs(st, ds) ==
    [raised |-> IF st.raised THEN "KeyError" ELSE "none",
     hangs |-> st.hangs, bound |-> TRUE,
     route_path |-> st.route_path,
     total_distance |-> st.total_distance,
     nodes_explored |-> st.nodes_explored,
     deliveries |-> ds]

\* the branch of a shortest-path algorithm.  flask_app.py always asks for the
\* way back to the source; render_flask_app.py only "if current_location !=
\* source".
ShortestPathBranch(variant, algorithm, g, coordinates, source, ds) ==
    BranchOfLegs(ReturnLeg(variant, algorithm, g, coordinates, source,
                           RouteLegs(algorithm, g, coordinates, ds, 1,
                                     [route_path |-> <<source>>, total_distance |-> 0,
                                      nodes_explored |-> 0, current_location |-> source,
                                      raised |-> FALSE, hangs |-> FALSE])),
                 ds)

\* what the tsp branch leaves in route_path, total_distance, nodes_explored
\* and deliveries, r being what tsp_with_time_windows returned
BranchOfTsp(variant, ds, r) ==
    [raised |-> "none", hangs |-> FALSE, bound |-> TRUE,
     route_path |-> r.path,
     total_distance |-> r.total_distance,
     nodes_explored |-> IF variant = "server" THEN Len(r.path) ELSE Len(ds),
     deliveries |-> IF variant = "server" THEN ds ELSE r.scheduled_deliveries]

\* the tsp branch.  render_flask_app.py goes on with the scheduled copies as
\* its deliveries and counts the delivery locations as nodes explored.
TspBranch(variant, g, source, ds) ==
    BranchOfTsp(variant, ds, tsp_with_time_windows(g, source, ds))

\* an unknown selector with route_path preset to the source alone
NoBranchEmptyRoute(variant, algorithm, source, ds) ==
    [raised |-> "none", hangs |-> FALSE, bound |-> TRUE, route_path |-> <<source>>,
     total_distance |-> 0, nodes_explored |-> 0, deliveries |-> ds]

\* no branch matches the selector: flask_app.py raises ValueError in its
\* else; render_flask_app.py has no else and goes on with route_path,
\* total_distance and nodes_explored never assigned (bound is FALSE)
NoBranch(variant, algorithm, source, ds) ==
    [raised |-> IF variant = "server" THEN "ValueError" ELSE "none",
     hangs |-> FALSE, bound |-> FALSE, route_path |-> <<>>,
     total_distance |-> 0, nodes_explored |-> 0, deliveries |-> ds]

\* "for d in deliveries: if d['location'] == location": 0 when there is none
FirstAt(ds, location) ==
    IF \E k \in 1..Len(ds) : ds[k].location = location
    THEN CHOOSE k \in 1..Len(ds) :
            /\ ds[k].location = location
            /\ \A j \in 1..(k - 1) : ds[j].location # location
    ELSE 0

\* "for i, location in enumerate(route_path)": a step for every node of the
\* path at which a delivery lies; eta is the hour and the minute of "HH:MM"
RECURSIVE RouteSteps(_, _, _, _, _, _)
RouteSteps(route_path, ds, total_distance, i, current_time, route_steps) ==
    IF i > Len(route_path) THEN route_steps
    ELSE LET location == route_path[i]
             k == FirstAt(ds, location)
         IN IF k = 0
            THEN RouteSteps(route_path, ds, total_distance, i + 1, current_time,
                            route_steps)
            ELSE RouteSteps(route_path, ds, total_distance, i + 1, current_time + 1,
                    Append(route_steps,
                           [step |-> i,
                            location |-> location,
                            deliveryId |-> ds[k].id,
                            distance |-> FloatDiv(total_distance, Len(route_path)),
                            duration |-> 45,
                            eta |-> [hours |-> current_time + 9, minutes |-> 0],
                            load |-> ds[k].load,
                            status |-> "on_time"]))

RECURSIVE SumLoads(_, _)
SumLoads(ds, k) == IF k > Len(ds) THEN 0 ELSE ds[k].load + SumLoads(ds, k + 1)

\* the part of optimize_route after the branches: the route steps, the
\* metrics, the result and the call of save_route
FinishRoute(branch, filtered, algorithm, capacity, database, save_ok) ==
    LET failed(exception) ==
            [result |-> [op |-> "optimize_route", error |-> exception],
             db |-> database, filtered |-> filtered, saves |-> 0,
             route_path |-> branch.route_path]
    IN IF branch.hangs
       THEN [result |-> [op |-> "optimize_route", hangs |-> TRUE],
             db |-> database, filtered |-> filtered, saves |-> 0,
             route_path |-> branch.route_path]
       ELSE IF branch.raised # "none" THEN failed(branch.raised)
       ELSE IF ~branch.bound THEN failed("UnboundLocalError")
       ELSE
         LET route_steps == RouteSteps(branch.route_path, branch.deliveries,
                                       branch.total_distance, 1, 0, <<>>)
             total_load == SumLoads(branch.deliveries, 1)
             result == [op |-> "optimize_route",
                        optimizedRoute |-> route_steps,
                        metrics |->
                           [totalDistance |-> branch.total_distance,
                            totalTime |-> Len(route_steps) * 60,
                            deliveries |-> Len(branch.deliveries),
                            capacityUsed |-> total_load,
                            capacityPercent |->
                               IF capacity > 0
                               THEN FloatMulInt(100, FloatDiv(total_load, capacity))
                               ELSE FloatOfInt(0)],
                        algorithm |-> algorithm,
                        nodesExplored |-> branch.nodes_explored]
             saved == save_route(database, result, save_ok)
         IN IF saved.raised
            THEN [failed("sqlite3.Error") EXCEPT !.saves = 1]
            ELSE [result |-> IF saved.route_id # 0
                             THEN result @@ [routeId |-> saved.route_id]
                             ELSE result,
                  db |-> saved.db, filtered |-> filtered, saves |-> 1,
                  route_path |-> branch.route_path]

\* the branch of the algorithm selector
RouteBranch(variant, algorithm, g, coordinates, source, filtered) ==
    IF algorithm \in ShortestPathAlgorithms
    THEN ShortestPathBranch(variant, algorithm, g, coordinates, source, filtered)
    ELSE IF algorithm = "tsp"
    THEN TspBranch(variant, g, source, filtered)
    ELSE NoBranch(variant, algorithm, source, filtered)

\* optimize_route on data = [config, deliveries, graph, coordinates], with the
\* database the process holds; save_ok tells whether sqlite carries out the
\* insert.  The value is [result, db, filtered, saves, route_path]: what is
\* returned, the database afterwards, the local filtered_deliveries, the
\* number of calls of save_route and the local route_path; result has the
\* field hangs when the call does not return.
optimize_route(variant, data, database, save_ok) ==
    LET source == data.config.sourceLocation
        algorithm == data.config.algorithm
        capacity == data.config.vehicleCapacity
        filtered == FilterByCapacity(data.deliveries, GreedyOrder(data.deliveries), 1,
                                     capacity, 0, <<>>)
    IN FinishRoute(RouteBranch(variant, algorithm, data.graph, data.coordinates,
                               source, filtered),
                   filtered, algorithm, capacity, database, save_ok)

(***************************************************************************)
(* Requests to optimize_route.  The city map has roads that run both ways  *)
(* between the places; a request names the depot as its source, one of the *)
(* four algorithms or an unknown one, and a vehicle capacity.  The process *)
(* that serves it is flask_app.py ("server") or render_flask_app.py        *)
(* ("render"), with or without a usable database.                          *)
(***************************************************************************)
RouteStopCounts == 0..2
RouteCapacitySet == {2, 3}
AlgorithmSet == {"dijkstra", "astar", "bellman", "tsp", "floyd"}
VariantSet == {"server", "render"}

\* priority, time window and load of the deliveries of a request
RouteStopKinds ==
    {<<"High", [start |-> 0, end |-> 1], 2>>,
     <<"High", [start |-> 1, end |-> 2], 1>>,
     <<"Normal", [start |-> 0, end |-> 1], 1>>}

Roads == {r \in SUBSET Place : Cardinality(r) = 2}

\* the adjacency dictionary of a map whose roads have the given lengths
RoadMap(length) ==
    [nodes |-> Place, keys |-> Place,
     w |-> Stored([e \in {e \in Place \X Place : {e[1], e[2]} \in DOMAIN length} |->
                      length[{e[1], e[2]}]])]

WorkingDatabase == [use_db |-> TRUE, routes |-> <<>>]

\* the city maps: any of the roads built, each with one of the lengths
RoadMaps ==
    {RoadMap(length) : length \in UNION {[built -> RoadLengthSet] : built \in SUBSET Roads}}

\* the delivery lists of a request: a place and a kind for every delivery
RouteStopLists ==
    UNION {{[i \in 1..n |->
               [MakeStop(i, stops[i][1], stops[i][2][1], stops[i][2][2])
                   EXCEPT !.load = stops[i][2][3]]] :
            stops \in [1..n -> Place \X RouteStopKinds]} : n \in RouteStopCounts}

RouteRequests ==
    {[variant |-> variant,
      config |-> [sourceLocation |-> Depot, algorithm |-> algorithm,
                  vehicleCapacity |-> capacity],
      coordinates |-> [p \in Place |-> <<0, 0>>]] :
        variant \in VariantSet, algorithm \in AlgorithmSet, capacity \in RouteCapacitySet}

InitRoute ==
    /\ graph \in RoadMaps
    /\ deliveries \in RouteStopLists
    /\ args \in RouteRequests
    /\ db \in {NoDatabase, WorkingDatabase}
    /\ src = Depot
    /\ tgt = Depot
    /\ pc = "idle"
    /\ walk = <<>>
    /\ locals = <<>>
    /\ history = <<>>
    /\ res = NoResult

\* the request as optimize_route receives it
RouteData ==
    [config |-> args.config, deliveries |-> deliveries, graph |-> graph,
     coordinates |-> args.coordinates]

\* one request served by the given program; locals keeps what the call held
\* in filtered_deliveries and route_path and how often it called save_route
ServeRoute(variant) ==
    /\ pc = "idle"
    /\ "variant" \in DOMAIN args
    /\ args.variant = variant
    /\ \E save_ok \in BOOLEAN :
       \E r \in {optimize_route(variant, RouteData, db, save_ok)} :
          /\ "hangs" \notin DOMAIN r.result
          /\ res' = r.result
          /\ db' = r.db
          /\ locals' = [filtered_deliveries |-> r.filtered, saves |-> r.saves,
                        route_path |-> r.route_path]
    /\ pc' = "done"
    /\ UNCHANGED <<pathVars, deliveries, args, history>>

OptimizeRouteServer == ServeRoute("server")

OptimizeRouteRender == ServeRoute("render")

NextRoute ==
    \/ OptimizeRouteServer
    \/ OptimizeRouteRender

SpecRoute == InitRoute /\ [][NextRoute]_vars

(***************************************************************************)
(* Claims about optimize_route.                                            *)
(***************************************************************************)
RouteReturned == Returned("optimize_route") /\ "optimizedRoute" \in DOMAIN res

\* C13: in the result of one request no two route steps of optimizedRoute
\* carry the same deliveryId, also when the route passes through a
\* delivery's location more than once.
C13_EachDeliveryOnce ==
    RouteReturned
        => \A i, j \in 1..Len(res.optimizedRoute) :
              i # j => res.optimizedRoute[i].deliveryId # res.optimizedRoute[j].deliveryId

\* the order in which the filter is to consider the deliveries: higher
\* priority first, among equal priority the earlier time-window start first
ConsideredNoLater(ds, i, j) ==
    \/ PriorityWeight(ds[i].priority) > PriorityWeight(ds[j].priority)
    \/ /\ PriorityWeight(ds[i].priority) = PriorityWeight(ds[j].priority)
       /\ ds[i].timeWindow.start <= ds[j].timeWindow.start

ConsiderationOrders(ds) ==
    {order \in [1..Len(ds) -> 1..Len(ds)] :
        /\ \A i, j \in 1..Len(ds) : i # j => order[i] # order[j]
        /\ \A i, j \in 1..Len(ds) : i < j => ConsideredNoLater(ds, order[i], order[j])}

\* the deliveries admitted along an order: each exactly when the admitted
\* load before it plus its own load is at most the capacity
RECURSIVE AdmittedLoad(_, _, _, _)
AdmittedLoad(ds, order, capacity, k) ==
    IF k = 0 THEN 0
    ELSE LET before == AdmittedLoad(ds, order, capacity, k - 1)
         IN IF before + ds[order[k]].load <= capacity
            THEN before + ds[order[k]].load
            ELSE before

Admitted(ds, order, capacity) ==
    LET in(k) == AdmittedLoad(ds, order, capacity, k - 1) + ds[order[k]].load <= capacity
        RECURSIVE Keep(_)
        Keep(k) == IF k > Len(ds) THEN <<>>
                   ELSE IF in(k) THEN <<ds[order[k]]>> \o Keep(k + 1)
                   ELSE Keep(k + 1)
    IN Keep(1)

\* C14: the deliveries optimize_route goes on with, in the order in which
\* its branch visits them, are those admitted when the request's deliveries
\* are considered by priority descending and, among equal priority, earlier
\* time-window start first, each admitted exactly when the cumulative
\* admitted load plus its load is at most the vehicle capacity.
C14_FilterOrder ==
    Returned("optimize_route")
        => \E order \in ConsiderationOrders(deliveries) :
              locals.filtered_deliveries
                  = Admitted(deliveries, order, args.config.vehicleCapacity)

KnownAlgorithms == ShortestPathAlgorithms \cup {"tsp"}

\* C15: for an algorithm selector outside dijkstra, astar, bellman and tsp,
\* optimize_route of either program returns an error value, returns no
\* route and does not call save_route.
C15_UnknownAlgorithm ==
    Returned("optimize_route") /\ args.config.algorithm \notin KnownAlgorithms
        => /\ "error" \in DOMAIN res
           /\ "optimizedRoute" \notin DOMAIN res
           /\ "routeId" \notin DOMAIN res
           /\ locals.saves = 0
           /\ db.routes = <<>>

\* render_flask_app.py, which has no else branch, answered an unknown
\* selector for a request with deliveries while its database works
C15_Witness ==
    /\ Returned("optimize_route")
    /\ args.variant = "render"
    /\ args.config.algorithm \notin KnownAlgorithms
    /\ locals.filtered_deliveries # <<>>
    /\ db.use_db
    /\ "error" \in DOMAIN res

\* the program of the other variant did the same
C15_WitnessServer ==
    /\ Returned("optimize_route")
    /\ args.variant = "server"
    /\ args.config.algorithm \notin KnownAlgorithms
    /\ locals.filtered_deliveries # <<>>
    /\ db.use_db
    /\ "error" \in DOMAIN res

\* what the same request returns when the database works and the insert
\* is carried out
SavedResult ==
    optimize_route(args.variant, RouteData, WorkingDatabase, TRUE).result

Without(r, field) == [f \in DOMAIN r \ {field} |-> r[f]]

\* C16: when save_route fails or the database is not available,
\* optimize_route returns what it returns when the save succeeds (the same
\* route, metrics, algorithm and node count), except that routeId is absent.
C16_SaveFailureHarmless ==
    Returned("optimize_route") /\ db.routes = <<>>
        => \A saved \in {SavedResult} :
              /\ res = Without(saved, "routeId")
              /\ "routeId" \notin DOMAIN res
              /\ "error" \notin DOMAIN saved => "routeId" \in DOMAIN saved

\* the database works, save_route was called for a route with a step and
\* the insert failed
C16_Witness ==
    /\ RouteReturned
    /\ db.use_db
    /\ db.routes = <<>>
    /\ locals.saves = 1
    /\ res.optimizedRoute # <<>>
    /\ "routeId" \notin DOMAIN res

\* the admitted deliveries a shortest-path branch reaches: on a map whose
\* roads run both ways the vehicle never leaves the part of the map the
\* source lies in
ReachedStops ==
    SelectSeq(locals.filtered_deliveries,
              LAMBDA d : Reachable(graph, args.config.sourceLocation, d.location))

\* the length of the shortest way through the locations of ds from k on,
\* starting at from, and back to the source
RECURSIVE TourLength(_, _, _)
TourLength(ds, k, from) ==
    IF k > Len(ds) THEN TrueDist(graph, from, args.config.sourceLocation)
    ELSE TrueDist(graph, from, ds[k].location) + TourLength(ds, k + 1, ds[k].location)

\* the route goes on after a delivery without a path: what it reports is
\* the route through the reached deliveries alone
C17_RouteNotAborted ==
    RouteReturned /\ args.config.algorithm \in ShortestPathAlgorithms
        => /\ res.metrics.totalDistance
                 = TourLength(ReachedStops, 1, args.config.sourceLocation)
           /\ \A k \in 1..Len(ReachedStops) :
                 \E i \in 1..Len(res.optimizedRoute) :
                    res.optimizedRoute[i].location = ReachedStops[k].location
           /\ \A i \in 1..Len(res.optimizedRoute) :
                 Reachable(graph, args.config.sourceLocation,
                           res.optimizedRoute[i].location)

\* C17: with a shortest-path algorithm, a delivery without a path does not
\* abort the route: the other deliveries are routed from the last reached
\* location, the unreachable one adds nothing to the route or the total
\* distance, and metrics.deliveries and metrics.capacityUsed count only the
\* deliveries reached.
C17_CountsOnlyReached ==
    RouteReturned /\ args.config.algorithm \in ShortestPathAlgorithms
        => /\ C17_RouteNotAborted
           /\ res.metrics.deliveries = Len(ReachedStops)
           /\ res.metrics.capacityUsed = SumLoads(ReachedStops, 1)

(***************************************************************************)
(* knapsack_01 on three items with loads out of 10, 20, 30 and profits out *)
(* of 60, 100, 120, for a capacity of 30, 50 or 60.                        *)
(***************************************************************************)
ExampleLoads == {10, 20, 30}
ExampleProfits == {60, 100, 120}
ExampleCapacities == {30, 50, 60}

ExampleItem(i, load, profit) ==
    MakeDelivery(i, "Normal", [start |-> 0, end |-> 2], load, profit)

InitExample ==
    /\ \E load \in [1..3 -> ExampleLoads], profit \in [1..3 -> ExampleProfits] :
          deliveries = [i \in 1..3 |-> ExampleItem(i, load[i], profit[i])]
    /\ \E capacity \in ExampleCapacities : args = [capacity |-> capacity]
    /\ graph = NoGraph
    /\ src = 0
    /\ tgt = 0
    /\ pc = "idle"
    /\ walk = <<>>
    /\ locals = <<>>
    /\ history = <<>>
    /\ db = NoDatabase
    /\ res = NoResult

NextExample == RunKnapsack01

SpecExample == InitExample /\ [][NextExample]_vars

\* the call of the example: items (10, 60), (20, 100), (30, 120), capacity 50
ExampleCall ==
    /\ Returned("knapsack_01")
    /\ deliveries = <<ExampleItem(1, 10, 60), ExampleItem(2, 20, 100),
                      ExampleItem(3, 30, 120)>>
    /\ args.capacity = 50

\* C21 as stated: for items (load 10, profit 60), (20, 100), (30, 120) and
\* capacity 50, knapsack_01 returns total value 220 and selects the first
\* and the second item, with total weight 30.
C21_ExampleAsStated ==
    ExampleCall
        => /\ res.total_value = 220
           /\ res.selected = <<1, 2>>
           /\ res.total_weight = 30

\* C21, amended: for items (load 10, profit 60), (20, 100), (30, 120) and
\* capacity 50, knapsack_01 returns total value 220 and selects the second
\* and the third item, with total weight 50.
C21_ExampleSelection ==
    ExampleCall
        => /\ res.total_value = 220
           /\ res.selected = <<2, 3>>
           /\ res.selected_items = <<deliveries[2], deliveries[3]>>
           /\ res.total_weight = 50

C21_Witness == ExampleCall /\ res.total_value = 220

\* C22: a request with a non-positive capacity is rejected: plan_capacity
\* with capacity <= 0, adaptive_scheduler with a constraints capacity <= 0
\* and optimize_route with vehicleCapacity <= 0 each return an error value,
\* not a normal result, and do not raise.
C22_NonPositiveCapacityRejected ==
    /\ Returned("plan_capacity") /\ args.capacity <= 0
          => "error" \in DOMAIN res
    /\ Returned("adaptive_scheduler") /\ CapacityOf(args.constraints) <= 0
          => "error" \in DOMAIN res
    /\ Returned("optimize_route") /\ args.config.vehicleCapacity <= 0
          => "error" \in DOMAIN res

(***************************************************************************)
(* The /api/plan-capacity handler of render_flask_app.py, beside           *)
(* plan_capacity of server/flask_app.py, on the same requests.             *)
(***************************************************************************)
\* the keys the handler reads from the result, in the order it reads them
RenderPlanKeys ==
    <<"selected_items", "total_value", "total_weight",
      "capacity_utilization", "remaining_capacity">>

\* the handler with the deliveries loaded: a key that is missing raises
\* KeyError, which becomes the error value of a 500 response
plan_capacity_render(ds, capacity) ==
    LET result == optimize_delivery_selection(ds, capacity)
        missing == {k \in 1..Len(RenderPlanKeys) : RenderPlanKeys[k] \notin DOMAIN result}
    IN IF ds = <<>>
       THEN [op |-> "/api/plan-capacity", error |-> "Deliveries data not loaded"]
       ELSE IF missing # {}
       THEN [op |-> "/api/plan-capacity",
             error |-> RenderPlanKeys[CHOOSE k \in missing : \A j \in missing : k <= j]]
       ELSE [op |-> "/api/plan-capacity",
             algorithm |-> "knapsack",
             selectedItems |-> result.selected_items,
             totalValue |-> result.total_value,
             totalWeight |-> result.total_weight,
             capacityUtilization |-> result.capacity_utilization,
             remainingCapacity |-> result.remaining_capacity]

RunPlanCapacityRender ==
    /\ pc = "idle"
    /\ "capacity" \in DOMAIN args
    /\ res' = plan_capacity_render(deliveries, args.capacity)
    /\ pc' = "done"
    /\ UNCHANGED <<pathVars, envVars, planVars>>

NextPlan ==
    \/ RunPlanCapacity
    \/ RunPlanCapacityRender

SpecPlan == InitKnap /\ [][NextPlan]_vars

\* C23: for a non-empty delivery set and a positive integer capacity,
\* plan_capacity of server/flask_app.py and the /api/plan-capacity handler
\* of render_flask_app.py return a result with the selected items, total
\* value, total weight, utilization and remaining capacity, and no error.
C23_PlanReturnsSelection ==
    /\ (Returned("plan_capacity") /\ deliveries # <<>> /\ args.capacity > 0)
          => /\ "error" \notin DOMAIN res
             /\ {"selectedDeliveries", "totalValue", "totalWeight",
                 "capacityUtilization", "remainingCapacity"} \subseteq DOMAIN res
    /\ (Returned("/api/plan-capacity") /\ deliveries # <<>> /\ args.capacity > 0)
          => /\ "error" \notin DOMAIN res
             /\ {"selectedItems", "totalValue", "totalWeight",
                 "capacityUtilization", "remainingCapacity"} \subseteq DOMAIN res

\* some node occurs as a neighbour and is no key of the adjacency dictionary
HasKeylessNode(g) == \E e \in DOMAIN g.w : e[2] \notin g.keys

\* C24: on a graph in which some node occurs only as a neighbour and not as
\* a key, dijkstra_with_path, astar and bellman_ford_with_path raise no
\* exception and return the shortest distance to the target (for
\* bellman_ford_with_path when no negative cycle can be reached, for astar
\* when the heuristic is consistent).
C24_KeylessNodes ==
    (pc = "done" /\ res.op \in {"dijkstra", "astar", "bellman"}
                 /\ HasKeylessNode(graph))
        => /\ ~res.err
           /\ (/\ ~NegCycleReachable(graph, src)
               /\ res.op = "astar" => Consistent(graph, tgt, res.coordinates))
                 => res.dist = TrueDist(graph, src, tgt)

(***************************************************************************)
(* Requests to optimize_route on maps with one-way roads, where the way    *)
(* to a delivery or back to the source may be missing: the shortest-path   *)
(* algorithms, up to two deliveries of one kind.                           *)
(***************************************************************************)
OneWayMaps ==
    {[nodes |-> Place, keys |-> Place, w |-> Stored(w)] :
        w \in UNION {[E -> RoadLengthSet] : E \in EdgeSets(Place, MaxEdges)}}

OneWayStopLists ==
    UNION {{[i \in 1..n |-> [MakeStop(i, place[i], "Normal", [start |-> 0, end |-> 1])
                                EXCEPT !.load = 1]] :
            place \in [1..n -> Place]} : n \in RouteStopCounts}

InitOneWay ==
    /\ graph \in OneWayMaps
    /\ deliveries \in OneWayStopLists
    /\ args \in {r \in RouteRequests : r.config.algorithm \in ShortestPathAlgorithms}
    /\ db = NoDatabase
    /\ src = Depot
    /\ tgt = Depot
    /\ pc = "idle"
    /\ walk = <<>>
    /\ locals = <<>>
    /\ history = <<>>
    /\ res = NoResult

SpecOneWay == InitOneWay /\ [][NextRoute]_vars

\* where the vehicle stands after the deliveries of ds from k on, starting
\* at from: it moves to a delivery exactly when there is a way to it
RECURSIVE LastReached(_, _, _)
LastReached(ds, k, from) ==
    IF k > Len(ds) THEN from
    ELSE IF Reachable(graph, from, ds[k].location)
    THEN LastReached(ds, k + 1, ds[k].location)
    ELSE LastReached(ds, k + 1, from)

\* C25: for the shortest-path algorithms the node sequence optimize_route
\* builds starts at the source, every two consecutive nodes of it are joined
\* by an edge of the graph (no junction node occurs twice in a row),
\* totalDistance is the sum of the weights of those edges, and it ends at
\* the source whenever there is a way back from the last reached delivery
\* location.
C25_RouteIsWalk ==
    RouteReturned /\ args.config.algorithm \in ShortestPathAlgorithms
        => /\ locals.route_path # <<>>
           /\ locals.route_path[1] = args.config.sourceLocation
           /\ \A i \in 1..(Len(locals.route_path) - 1) :
                 <<locals.route_path[i], locals.route_path[i + 1]>> \in DOMAIN graph.w
           /\ res.metrics.totalDistance = PathWeight(graph, locals.route_path)
           /\ Reachable(graph,
                        LastReached(locals.filtered_deliveries, 1,
                                    args.config.sourceLocation),
                        args.config.sourceLocation)
                 => Last(locals.route_path) = args.config.sourceLocation

\* two deliveries at different places were reached over a junction and the
\* route came back to the source
C25_Witness ==
    /\ RouteReturned
    /\ args.config.algorithm \in ShortestPathAlgorithms
    /\ Len(res.optimizedRoute) >= 2
    /\ Len(locals.route_path) >= 4
    /\ Last(locals.route_path) = args.config.sourceLocation
    /\ \E i \in 1..Len(locals.route_path) :
          \A d \in Range(deliveries) : d.location # locals.route_path[i]

GreedyReturned ==
    /\ Returned("adaptive_scheduler")
    /\ "algorithm_used" \in DOMAIN res
    /\ res.algorithm_used = "greedy"

GreedyStatuses == {"scheduled", "missed_window", "capacity_exceeded"}

\* the part of C26 that does not depend on the capacity: one status for
\* every delivery, the schedule holds the scheduled ones, their times lie in
\* their windows and increase
C26_StatusesAndTimes ==
    GreedyReturned
        => /\ \A i \in 1..Len(deliveries) :
                 /\ "status" \in DOMAIN deliveries[i]
                 /\ deliveries[i].status \in GreedyStatuses
           /\ Range(res.scheduled)
                 = {i \in 1..Len(deliveries) : deliveries[i].status = "scheduled"}
           /\ Cardinality(Range(res.scheduled)) = Len(res.scheduled)
           /\ \A k \in 1..Len(res.scheduled) :
                 /\ "scheduled_time" \in DOMAIN deliveries[res.scheduled[k]]
                 /\ deliveries[res.scheduled[k]].scheduled_time
                       >= deliveries[res.scheduled[k]].timeWindow.start
                 /\ deliveries[res.scheduled[k]].scheduled_time
                       <= deliveries[res.scheduled[k]].timeWindow.end
           /\ \A k \in 1..(Len(res.scheduled) - 1) :
                 deliveries[res.scheduled[k]].scheduled_time
                    < deliveries[res.scheduled[k + 1]].scheduled_time

TourStopLists ==
    UNION {[1..n -> Place \X {"Normal"} \X StopWindowSet] : n \in 0..MaxStops}

InitTour ==
    /\ graph \in OneWayMaps
    /\ \E stops \in TourStopLists :
          deliveries = [i \in 1..Len(stops) |->
                           MakeStop(i, stops[i][1], stops[i][2], stops[i][3])]
    /\ src = Depot
    /\ tgt = Depot
    /\ pc = "idle"
    /\ walk = <<>>
    /\ args = <<>>
    /\ locals = <<>>
    /\ history = <<>>
    /\ db = NoDatabase
    /\ res = NoResult

SpecTour == InitTour /\ [][NextTsp]_vars

\* the source followed by the locations of the scheduled deliveries
VisitedStops ==
    <<src>> \o [k \in 1..Len(res.scheduled_deliveries) |-> Chosen(k).location]

\* C27: the path of tsp_with_time_windows starts at the source, every two
\* consecutive nodes of it are joined by a direct edge, the total distance
\* is the sum of the weights of those edges, and the source is appended as
\* closing leg exactly when the last visited stop differs from the source
\* and a direct edge leads from it to the source; otherwise the path ends at
\* the last visited stop.
C27_TspPath ==
    Returned("tsp_with_time_windows")
        => /\ res.path[1] = src
           /\ Contiguous(graph, res.path)
           /\ res.total_distance = PathWeight(graph, res.path)
           /\ res.path =
                 IF /\ Last(VisitedStops) # src
                    /\ <<Last(VisitedStops), src>> \in DOMAIN graph.w
                 THEN Append(VisitedStops, src)
                 ELSE VisitedStops

\* two stops were visited and no road leads from the last one back to the
\* source: the path ends there
C27_Witness ==
    /\ Returned("tsp_with_time_windows")
    /\ Len(res.scheduled_deliveries) = 2
    /\ Last(VisitedStops) # src
    /\ <<Last(VisitedStops), src>> \notin DOMAIN graph.w
    /\ Last(res.path) # src

(***************************************************************************)
(* tsp_solver.py: nearest_neighbor_tsp and brute_force_tsp                 *)
(***************************************************************************)
\* "if len(nodes_to_visit) > 10"
BruteForceLimit == 10

\* the unvisited nodes the scan "for node in unvisited" can settle on: the
\* scan keeps the first node of least distance, and the order in which a
\* set of strings is iterated is not fixed
NearestNodes(g, current_node, unvisited) ==
    {node \in unvisited :
        /\ <<current_node, node>> \in DOMAIN g.w
        /\ g.w[<<current_node, node>>] < Infinity
        /\ \A other \in unvisited :
              <<current_node, other>> \in DOMAIN g.w
                  => g.w[<<current_node, node>>] <= g.w[<<current_node, other>>]}

\* "Return to start" of nearest_neighbor_tsp
NNReturn(g, start, current_node, path, total_distance) ==
    IF current_node # start /\ <<current_node, start>> \in DOMAIN g.w
    THEN [path |-> Append(path, start),
          total_distance |-> total_distance + g.w[<<current_node, start>>]]
    ELSE [path |-> path, total_distance |-> total_distance]

\* "while unvisited": the set of outcomes, one for every way the ties fall
RECURSIVE NNLoop(_, _, _, _, _, _)
NNLoop(g, start, current_node, unvisited, path, total_distance) ==
    IF unvisited = {} \/ NearestNodes(g, current_node, unvisited) = {}
    THEN {NNReturn(g, start, current_node, path, total_distance)}
    ELSE UNION {NNLoop(g, start, nearest_node, unvisited \ {nearest_node},
                       Append(path, nearest_node),
                       total_distance + g.w[<<current_node, nearest_node>>]) :
                   nearest_node \in NearestNodes(g, current_node, unvisited)}

\* the outcomes of nearest_neighbor_tsp(graph, start, nodes_to_visit)
nearest_neighbor_tsp(g, start, nodes_to_visit) ==
    IF nodes_to_visit = <<>>
    THEN {[path |-> <<start>>, total_distance |-> 0]}
    ELSE NNLoop(g, start, start, Range(nodes_to_visit) \ {start}, <<start>>, 0)

\* the order of tuples of positions
LexLess(p, q) ==
    \E i \in 1..Len(p) : p[i] < q[i] /\ \A j \in 1..(i - 1) : p[j] = q[j]

\* the arrangements of the positions 1..n
Arrangements(n) == {p \in [1..n -> 1..n] : \A i, j \in 1..n : p[i] = p[j] => i = j}

\* itertools.permutations(nodes_to_visit): the arrangements of the positions
\* in lexicographic order, each read as a tuple of nodes
permutations(nodes_to_visit) ==
    LET P == Arrangements(Len(nodes_to_visit))
    IN [k \in 1..Cardinality(P) |->
           LET p == CHOOSE q \in P : Cardinality({o \in P : LexLess(o, q)}) = k - 1
           IN [i \in 1..Len(nodes_to_visit) |-> nodes_to_visit[p[i]]]]

\* how far "for next_node in perm" gets: the path walked until a road is
\* missing
RECURSIVE PermWalk(_, _, _, _)
PermWalk(g, perm, i, path) ==
    IF i > Len(perm) \/ <<Last(path), perm[i]>> \notin DOMAIN g.w THEN path
    ELSE PermWalk(g, perm, i + 1, Append(path, perm[i]))

\* one round of "for perm in itertools.permutations(nodes_to_visit)"
BruteTry(g, start, perm, walked, best) ==
    IF /\ Len(walked) = Len(perm) + 1
       /\ <<Last(walked), start>> \in DOMAIN g.w
       /\ PathWeight(g, Append(walked, start)) < best.total_distance
    THEN [path |-> Append(walked, start),
          total_distance |-> PathWeight(g, Append(walked, start))]
    ELSE best

RECURSIVE BruteLoop(_, _, _, _, _)
BruteLoop(g, start, perms, k, best) ==
    IF k > Len(perms) THEN best
    ELSE BruteLoop(g, start, perms, k + 1,
                   BruteTry(g, start, perms[k],
                            PermWalk(g, perms[k], 1, <<start>>), best))

\* the outcomes of brute_force_tsp(graph, start, nodes_to_visit)
brute_force_tsp(g, start, nodes_to_visit) ==
    IF Len(nodes_to_visit) > BruteForceLimit
    THEN nearest_neighbor_tsp(g, start, nodes_to_visit)
    ELSE {BruteLoop(g, start, permutations(nodes_to_visit), 1,
                    [path |-> <<>>, total_distance |-> Infinity])}

(***************************************************************************)
(* Calls of the two tour solvers on maps of one-way roads between          *)
(* different places, with short lists of nodes to visit and lists one      *)
(* longer than the limit of the exhaustive search.                         *)
(***************************************************************************)
TourMaps ==
    {[nodes |-> Place, keys |-> Place, w |-> Stored(w)] :
        w \in UNION {[E -> RoadLengthSet] :
                        E \in SUBSET {e \in Place \X Place : e[1] # e[2]}}}

ShortVisitLists == UNION {[1..n -> Place] : n \in 0..MaxStops}

\* a list one longer than the limit: two nodes, the second one repeated
LongVisitLists ==
    {[i \in 1..(BruteForceLimit + 1) |-> IF i = 1 THEN first ELSE second] :
        first \in Place, second \in Place}

InitBrute ==
    /\ graph \in TourMaps
    /\ \E nodes_to_visit \in ShortVisitLists \cup LongVisitLists :
          args = [nodes_to_visit |-> nodes_to_visit]
    /\ src = Depot
    /\ tgt = Depot
    /\ pc = "idle"
    /\ walk = <<>>
    /\ deliveries = <<>>
    /\ locals = <<>>
    /\ history = <<>>
    /\ db = NoDatabase
    /\ res = NoResult

RunNearestNeighborTsp ==
    /\ pc = "idle"
    /\ \E r \in nearest_neighbor_tsp(graph, src, args.nodes_to_visit) :
          res' = [op |-> "nearest_neighbor_tsp", path |-> r.path,
                  total_distance |-> r.total_distance]
    /\ pc' = "done"
    /\ UNCHANGED <<pathVars, planVars, envVars>>

RunBruteForceTsp ==
    /\ pc = "idle"
    /\ \E r \in brute_force_tsp(graph, src, args.nodes_to_visit) :
          res' = [op |-> "brute_force_tsp", path |-> r.path,
                  total_distance |-> r.total_distance]
    /\ pc' = "done"
    /\ UNCHANGED <<pathVars, planVars, envVars>>

NextBrute == RunNearestNeighborTsp \/ RunBruteForceTsp

SpecBrute == InitBrute /\ [][NextBrute]_vars

\* the closed tours from the source through the nodes to visit, in any
\* visiting order, along direct edges (not taken from the code)
ClosedTours ==
    {tour \in {<<src>> \o [i \in 1..Len(args.nodes_to_visit) |->
                             args.nodes_to_visit[p[i]]] \o <<src>> :
                  p \in Arrangements(Len(args.nodes_to_visit))} :
        Contiguous(graph, tour)}

\* the outcomes of nearest_neighbor_tsp that are closed tours through every
\* node to visit
NearestClosedTours ==
    {r \in nearest_neighbor_tsp(graph, src, args.nodes_to_visit) :
        /\ Len(r.path) > 1
        /\ Last(r.path) = src
        /\ Range(args.nodes_to_visit) \subseteq NodesOf(r.path)}

\* C28: brute_force_tsp returns an outcome of nearest_neighbor_tsp for more
\* than 10 nodes to visit; for at most 10 it returns a closed tour of least
\* total distance among the visiting orders whose direct edges all exist,
\* and its distance is at most the distance of nearest_neighbor_tsp on the
\* same input whenever that one returns a closed tour through every stop.
C28_BruteForceOptimal ==
    Returned("brute_force_tsp")
        => IF Len(args.nodes_to_visit) > BruteForceLimit
           THEN [path |-> res.path, total_distance |-> res.total_distance]
                    \in nearest_neighbor_tsp(graph, src, args.nodes_to_visit)
           ELSE /\ ClosedTours # {}
                      => /\ res.path \in ClosedTours
                         /\ res.total_distance = PathWeight(graph, res.path)
                         /\ \A tour \in ClosedTours :
                               res.total_distance <= PathWeight(graph, tour)
                /\ \A r \in NearestClosedTours :
                      res.total_distance <= r.total_distance

(***************************************************************************)
(* bellman_ford.py: detect_negative_cycle                                  *)
(***************************************************************************)
\* no node: the value None of affected_node
NoNode == 0

\* "Find a node that's part of negative cycle": the head of the first edge
\* that can still be relaxed
RECURSIVE AffectedNode(_, _, _, _)
AffectedNode(g, edges, i, distances) ==
    IF i > Len(edges) THEN NoNode
    ELSE IF /\ distances[edges[i][1]] # Infinity
            /\ distances[edges[i][1]] + g.w[edges[i]] < distances[edges[i][2]]
    THEN edges[i][2]
    ELSE AffectedNode(g, edges, i + 1, distances)

\* "while current not in visited"
RECURSIVE TraceBack(_, _, _, _)
TraceBack(previous, current, visited, cycle_nodes) ==
    IF current \in visited THEN cycle_nodes
    ELSE IF current \notin DOMAIN previous THEN Append(cycle_nodes, current)
    ELSE TraceBack(previous, previous[current], visited \cup {current},
                   Append(cycle_nodes, current))

\* the nodes reported for a run of bellman_ford that found a negative cycle
CycleNodes(g, bf, affected_node) ==
    IF affected_node = NoNode THEN <<>>
    ELSE TraceBack(bf.previous, affected_node, {}, <<>>)

\* the result of detect_negative_cycle for a run of bellman_ford from the
\* first key
DetectFrom(g, bf) ==
    IF bf.err
    THEN [op |-> "detect_negative_cycle", err |-> TRUE,
          has_negative_cycle |-> FALSE, cycle_nodes |-> <<>>]
    ELSE IF ~bf.has_negative_cycle
    THEN [op |-> "detect_negative_cycle", err |-> FALSE,
          has_negative_cycle |-> FALSE, cycle_nodes |-> <<>>]
    ELSE [op |-> "detect_negative_cycle", err |-> FALSE,
          has_negative_cycle |-> TRUE,
          cycle_nodes |-> CycleNodes(g, bf,
                              AffectedNode(g, EdgeList(g), 1, bf.distances))]

\* detect_negative_cycle(graph); the first key of the dictionary is the
\* least node
detect_negative_cycle(g) ==
    IF g.keys = {}
    THEN [op |-> "detect_negative_cycle", err |-> FALSE,
          has_negative_cycle |-> FALSE, cycle_nodes |-> <<>>]
    ELSE DetectFrom(g, bellman_ford(g, SetMin(g.keys)))

\* calls of detect_negative_cycle on the graphs of InitPath
InitCycle ==
    /\ InitPath
    /\ src = SetMin(Node)
    /\ tgt = SetMin(Node)

RunDetectNegativeCycle ==
    /\ pc = "idle"
    /\ res' = detect_negative_cycle(graph)
    /\ pc' = "done"
    /\ UNCHANGED <<pathVars, planVars, envVars>>

NextCycle == RunDetectNegativeCycle

SpecCycle == InitCycle /\ [][NextCycle]_vars

\* the cycles of negative total weight, each as a simple path that an edge
\* closes (not taken from the code)
NegativeCycles(g) ==
    {p \in SimplePaths(g) :
        /\ <<Last(p), p[1]>> \in DOMAIN g.w
        /\ PathWeight(g, p) + g.w[<<Last(p), p[1]>>] < 0}

\* C29: detect_negative_cycle returns true exactly when the graph has a
\* cycle of negative weight, reachable from the first key or not, and
\* every node of cycle_nodes lies on a cycle of negative weight.
C29_DetectsAnyNegativeCycle ==
    (Returned("detect_negative_cycle") /\ ~res.err)
        => /\ res.has_negative_cycle <=> NegativeCycles(graph) # {}
           /\ \A i \in 1..Len(res.cycle_nodes) :
                 \E p \in NegativeCycles(graph) : res.cycle_nodes[i] \in NodesOf(p)

(***************************************************************************)
(* Calls of astar on graphs with non-negative weights whose target may be  *)
(* a node that is not in the graph, so that the search runs until the heap *)
(* is empty.                                                               *)
(***************************************************************************)
InitExpand ==
    /\ \E E \in EdgeSets(Node, MaxEdges) :
       \E w \in [E -> {x \in WeightSet : x >= 0}] :
          graph = [nodes |-> Node, keys |-> Node, w |-> w]
    /\ src \in Node
    /\ tgt \in AstarNode
    /\ pc = "idle"
    /\ walk = <<>>
    /\ deliveries = <<>>
    /\ args = <<>>
    /\ locals = <<>>
    /\ history = <<>>
    /\ db = NoDatabase
    /\ res = NoResult

NextExpand == RunAstar

SpecExpand == InitExpand /\ [][NextExpand]_vars

\* the distinct nodes of the adjacency dictionary: its keys and the
\* neighbours they list
GraphNodes(g) == g.keys \cup {e[2] : e \in DOMAIN g.w}

\* C30: in a call of astar on a graph with non-negative weights no node is
\* expanded twice, so that the reported nodes_explored is at most the number
\* of distinct nodes of the graph.
C30_ExploredAtMostNodes ==
    (Returned("astar") /\ NonNegative(graph))
        => res.nodes_explored <= Cardinality(GraphNodes(graph))
====
